---- MODULE Spec2Model ----
(***************************************************************************)
(* Unified memory graph of CasualMemoryAgent: the node and edge tables of  *)
(* DatabaseService (services/database.py) and the operations of            *)
(* MemoryGraph (services/memory_graph.py) that read and write them.        *)
(*                                                                         *)
(* Every action is one complete call of a MemoryGraph method, run alone    *)
(* (no interleaving). In Spec the record store answers every request; in   *)
(* SpecFaults one kind of request raises for the length of a call.         *)
(***************************************************************************)
EXTENDS Integers, Sequences, FiniteSets, Bags

VARIABLES
    nodes,   \* rows of the "nodes" table (a set of NodeRecord rows)
    edges,   \* rows of the "edges" table (a bag of EdgeRecord rows: duplicates are kept)
    nextId,  \* the next fresh node id (uuid4 never repeats an id)
    clock,   \* the latest time datetime.now() has returned
    tasks,   \* the calls in flight: suspended at an await, or in the middle of a write
    walk,    \* the path search of _has_path, one iteration of its loop at a time
    ret      \* the operation that ran last and what it returned or raised

vars == <<nodes, edges, nextId, clock, tasks, walk, ret>>

\* ------------------------------------------------------------------ bounds
\* node ids ever generated
MaxNodes == 3
\* rows the edge table may hold
MaxEdges == 2
\* the latest time the clock reaches
MaxTime == 2
\* items in a reply of the remote rerank model
MaxReply == 2
\* nodes stored at one time while the fields of nodes are exercised
MaxFieldNodes == 1
\* calls in flight at one time
MaxTasks == 2
\* node ids ever generated while calls are in flight
MaxConcurrentNodes == 2
\* node ids the rows of the edge table name while a path search is followed
MaxPathNodes == 4
\* rows of the edge table while a path search is followed
MaxPathRows == 4
\* rows of the edge table while the neighbors of a node are listed
MaxNeighborRows == 3

\* ------------------------------------------------------------- data model
\* None where a string is expected (a field not supplied, a NULL column)
None == "None"
\* None where a node id is expected (an id filter that is not given)
NoId == 0

EVENT == "event"
NOTE == "note"
NodeType == {EVENT, NOTE}

PENDING == "pending"
IN_PROGRESS == "in_progress"
DONE == "done"
ARCHIVED == "archived"
EventStatus == {PENDING, IN_PROGRESS, DONE, ARCHIVED}

DEPENDS_ON == "depends_on"
PART_OF == "part_of"
REFERENCES == "references"
PRODUCES == "produces"
EdgeType == {DEPENDS_ON, PART_OF, REFERENCES, PRODUCES}

NodeIds == 1..MaxNodes

\* The matrix with REFERENCES also allowed between two Events.
VALID_EDGE_TYPES_AnyReferences(source_type, target_type) ==
    IF source_type = EVENT /\ target_type = EVENT THEN {DEPENDS_ON, PART_OF, REFERENCES}
    ELSE IF source_type = NOTE /\ target_type = NOTE THEN {REFERENCES}
    ELSE {REFERENCES, PRODUCES}

\* VALID_EDGE_TYPES.get((source_type, target_type), [])
VALID_EDGE_TYPES(source_type, target_type) ==
    IF source_type = EVENT /\ target_type = EVENT THEN {DEPENDS_ON, PART_OF}
    ELSE IF source_type = NOTE /\ target_type = NOTE THEN {REFERENCES}
    ELSE IF source_type = EVENT /\ target_type = NOTE THEN {REFERENCES, PRODUCES}
    ELSE IF source_type = NOTE /\ target_type = EVENT THEN {REFERENCES, PRODUCES}
    ELSE {}

\* Edge(source_id, target_id, edge_type); created_at is not part of the key
Edge(source_id, target_id, edge_type) ==
    [source_id |-> source_id, target_id |-> target_id, edge_type |-> edge_type]

\* ------------------------------------------------------------- embeddings
\* The placeholder embedding: a vector of Python floats drawn from a generator
\* seeded by the text, so equal texts give equal vectors.
embed_text(text) == [seed |-> text, dtype |-> "float64"]

\* embedding = None
NoEmbedding == [seed |-> None, dtype |-> None]

\* The vector column is a list of float32: storing a vector rounds it.
ToFloat32(vector) ==
    IF vector = NoEmbedding THEN NoEmbedding ELSE [vector EXCEPT !.dtype = "float32"]

\* ------------------------------------------------------------- field values
\* None where a datetime is expected (no due date); datetime.now() is 1 or later
NoTime == 0
\* None where an int is expected (priority not supplied; NULL priority column)
NoPriority == -1

\* datetime.isoformat() and datetime.fromisoformat(): the text form of a timestamp
isoformat(t) == [iso |-> t]
fromisoformat(s) == s.iso
\* a NULL due_date column
NoIso == [iso |-> NoTime]

\* json.dumps() and json.loads(): the text form of a metadata dict or a tag list
json_dumps(value) == [json |-> value]
json_loads(s) == s.json
\* a NULL tags_json column
NoJson == [json |-> None]

\* metadata = {} and tags = [], the defaults of the models
EmptyDict == "{}"
EmptyList == "[]"

\* --------------------------------------------------------- node <-> record
\* Event(...) and Note(...) objects; a field the variant lacks is None
EventNode(id, content, created_at, updated_at, metadata, embedding, status, due_date, priority) ==
    [id |-> id, type |-> EVENT, content |-> content,
     created_at |-> created_at, updated_at |-> updated_at, metadata |-> metadata,
     embedding |-> embedding,
     status |-> status, due_date |-> due_date, priority |-> priority,
     title |-> None, tags |-> None, source |-> None]

NoteNode(id, content, created_at, updated_at, metadata, embedding, title, tags, source) ==
    [id |-> id, type |-> NOTE, content |-> content,
     created_at |-> created_at, updated_at |-> updated_at, metadata |-> metadata,
     embedding |-> embedding,
     status |-> None, due_date |-> NoTime, priority |-> NoPriority,
     title |-> title, tags |-> tags, source |-> source]

\* None where a node is expected (get_node found no row)
NoNode ==
    [id |-> NoId, type |-> None, content |-> None,
     created_at |-> NoTime, updated_at |-> NoTime, metadata |-> None,
     embedding |-> NoEmbedding,
     status |-> None, due_date |-> NoTime, priority |-> NoPriority,
     title |-> None, tags |-> None, source |-> None]

\* isinstance(node, Event), isinstance(node, Note)
isEvent(node) == node.type = EVENT
isNote(node) == node.type = NOTE

\* a column the record dict has no key for is NULL
node_to_record(node) ==
    [id |-> node.id, type |-> node.type, content |-> node.content,
     created_at |-> isoformat(node.created_at),
     updated_at |-> isoformat(node.updated_at),
     metadata_json |-> json_dumps(node.metadata),
     vector |-> ToFloat32(node.embedding),
     status |-> IF isEvent(node) THEN node.status ELSE None,
     due_date |-> IF isEvent(node) /\ node.due_date # NoTime
                  THEN isoformat(node.due_date) ELSE NoIso,
     priority |-> IF isEvent(node) THEN node.priority ELSE NoPriority,
     title |-> IF isNote(node) THEN node.title ELSE None,
     tags_json |-> IF isNote(node) THEN json_dumps(node.tags) ELSE NoJson,
     source |-> IF isNote(node) THEN node.source ELSE None]

record_to_node(record) ==
    LET metadata == IF record.metadata_json # json_dumps("")
                    THEN json_loads(record.metadata_json) ELSE EmptyDict
    IN  IF record.type = EVENT
        THEN EventNode(record.id, record.content,
                       fromisoformat(record.created_at),
                       fromisoformat(record.updated_at),
                       metadata, record.vector,
                       IF record.status # None THEN record.status ELSE PENDING,
                       IF record.due_date # NoIso
                       THEN fromisoformat(record.due_date) ELSE NoTime,
                       record.priority)
        ELSE NoteNode(record.id, record.content,
                      fromisoformat(record.created_at),
                      fromisoformat(record.updated_at),
                      metadata, record.vector,
                      record.title,
                      IF record.tags_json # NoJson /\ record.tags_json # json_dumps("")
                      THEN json_loads(record.tags_json) ELSE EmptyList,
                      record.source)

\* ----------------------------------------------------------- DatabaseService
\* A store value st is [nodes |-> rows, edges |-> bag of rows, fault |-> the request
\* the record store raises an exception on during the call, if any].
NoFault == None
StoreFaults ==
    {"nodes.count_rows", "nodes.search", "nodes.to_pandas",
     "edges.count_rows", "edges.search", "edges.to_pandas", "edges.add"}

\* the store as it is, answering every request
Store == [nodes |-> nodes, edges |-> edges, fault |-> NoFault]

\* the store as it is, raising on the requests of one kind
FaultyStore(fault) == [Store EXCEPT !.fault = fault]

\* the rows of a bag b that satisfy Keep
FilterBag(b, Keep(_)) == [e \in {x \in DOMAIN b : Keep(x)} |-> b[e]]

\* add_node that overwrites the table with the one row
add_node_Overwrite(st, node) == [st EXCEPT !.nodes = {node_to_record(node)}]

add_node(st, node) == [st EXCEPT !.nodes = @ \cup {node_to_record(node)}]

get_node(st, node_id) ==
    LET results == {r \in st.nodes : r.id = node_id}
    IN  IF results = {} THEN NoNode ELSE record_to_node(CHOOSE r \in results : TRUE)

\* delete_node that forgets the edge rows
delete_node_NoCascade(st, node_id) ==
    [st EXCEPT !.nodes = {r \in @ : r.id # node_id}]

\* delete_node that removes only the edges leaving the node
delete_node_OutgoingOnly(st, node_id) ==
    [st EXCEPT !.nodes = {r \in st.nodes : r.id # node_id},
               !.edges = LET Keep(e) == e.source_id # node_id
                         IN  FilterBag(st.edges, Keep)]

\* delete_node that deletes every row of the edge table
delete_node_AllEdges(st, node_id) ==
    [st EXCEPT !.nodes = {r \in st.nodes : r.id # node_id}, !.edges = EmptyBag]

delete_node(st, node_id) ==
    [st EXCEPT !.nodes = {r \in st.nodes : r.id # node_id},
               !.edges = LET Keep(e) == ~(e.source_id = node_id \/ e.target_id = node_id)
                         IN  FilterBag(st.edges, Keep)]

\* update_node that stamps both timestamps
update_node_StampsCreated(st, node, now) ==
    add_node(delete_node(st, node.id), [node EXCEPT !.updated_at = now, !.created_at = now])

\* delete-then-re-add: the adapter has no update primitive; now is datetime.now()
update_node(st, node, now) ==
    add_node(delete_node(st, node.id), [node EXCEPT !.updated_at = now])

\* The listing scans return [list |-> the nodes, result |-> "ok"]: an exception of
\* the store is caught and the list is empty.
NodeList(node_list) == [list |-> node_list, result |-> "ok"]

get_all_nodes(st, node_type) ==
    IF st.fault = "nodes.count_rows" THEN NodeList({})
    ELSE IF Cardinality(st.nodes) = 0 THEN NodeList({})
    ELSE IF st.fault = (IF node_type # None THEN "nodes.search" ELSE "nodes.to_pandas")
    THEN NodeList({})
    ELSE NodeList({record_to_node(r) :
                      r \in {x \in st.nodes : node_type # None => x.type = node_type}})

\* get_events without the try: an exception of the store reaches the caller
get_events_Propagates(st, status) ==
    IF st.fault \in {"nodes.count_rows", "nodes.search"}
    THEN [list |-> {}, result |-> "StorageError"]
    ELSE NodeList({record_to_node(r) :
                      r \in {x \in st.nodes :
                                /\ x.type = EVENT
                                /\ (status # None => x.status = status)}})

get_events(st, status) ==
    IF st.fault = "nodes.count_rows" THEN NodeList({})
    ELSE IF Cardinality(st.nodes) = 0 THEN NodeList({})
    ELSE IF st.fault = "nodes.search" THEN NodeList({})
    ELSE NodeList({record_to_node(r) :
                      r \in {x \in st.nodes :
                                /\ x.type = EVENT
                                /\ (status # None => x.status = status)}})

get_notes(st) ==
    IF st.fault = "nodes.count_rows" THEN NodeList({})
    ELSE IF Cardinality(st.nodes) = 0 THEN NodeList({})
    ELSE IF st.fault = "nodes.search" THEN NodeList({})
    ELSE NodeList({record_to_node(r) : r \in {x \in st.nodes : x.type = NOTE}})

\* whether the store raised an exception during a scan of a table ("nodes" or
\* "edges"): on the row count, or on the query (a search when the scan has a
\* condition, else a read of the whole table) of a table that has rows
scan_raised(st, table, conditions) ==
    \/ st.fault = table \o ".count_rows"
    \/ /\ (IF table = "nodes" THEN Cardinality(st.nodes) ELSE BagCardinality(st.edges)) # 0
       /\ st.fault = table \o (IF conditions THEN ".search" ELSE ".to_pandas")

\* the validation that accepts every edge type
validate_edge_AcceptAll(source, target, edge_type) == TRUE

validate_edge(source, target, edge_type) ==
    edge_type \in VALID_EDGE_TYPES(source.type, target.type)

\* an exception of the store is caught and the list is empty
get_edges(st, source_id, target_id, edge_type) ==
    LET conditions == source_id # NoId \/ target_id # NoId \/ edge_type # None
        Keep(e) == /\ (source_id # NoId => e.source_id = source_id)
                   /\ (target_id # NoId => e.target_id = target_id)
                   /\ (edge_type # None => e.edge_type = edge_type)
    IN  IF st.fault = "edges.count_rows" THEN EmptyBag
        ELSE IF BagCardinality(st.edges) = 0 THEN EmptyBag
        ELSE IF st.fault = (IF conditions THEN "edges.search" ELSE "edges.to_pandas")
        THEN EmptyBag
        ELSE FilterBag(st.edges, Keep)

\* delete_edge that removes one of the rows that match
delete_edge_OneCopy(st, source_id, target_id, edge_type) ==
    LET edge == Edge(source_id, target_id, edge_type)
    IN  IF edge \in DOMAIN st.edges
        THEN [st EXCEPT !.edges = @ (-) SetToBag({edge})]
        ELSE st

\* delete_edge that matches on the endpoints alone
delete_edge_AnyType(st, source_id, target_id, edge_type) ==
    LET Keep(e) == ~(e.source_id = source_id /\ e.target_id = target_id)
    IN  [st EXCEPT !.edges = FilterBag(@, Keep)]

delete_edge(st, source_id, target_id, edge_type) ==
    LET Keep(e) == e # Edge(source_id, target_id, edge_type)
    IN  [st EXCEPT !.edges = FilterBag(@, Keep)]

\* the target ids of a bag of edge rows, one entry per row, in scan order
RECURSIVE TargetIds(_)
TargetIds(b) ==
    IF DOMAIN b = {} THEN <<>>
    ELSE LET e == CHOOSE x \in DOMAIN b : TRUE
             Keep(x) == x # e
         IN  [i \in 1..b[e] |-> e.target_id] \o TargetIds(FilterBag(b, Keep))

\* the while loop of _has_path: an explicit stack and a visited set; an exception
\* of the edge search is passed over, and nothing is pushed
RECURSIVE has_path_loop(_, _, _, _, _)
has_path_loop(st, stack, visited, to_id, edge_type) ==
    IF stack = <<>> THEN FALSE
    ELSE LET current == stack[Len(stack)]
             rest == SubSeq(stack, 1, Len(stack) - 1)
         IN  IF current = to_id THEN TRUE
             ELSE IF current \in visited
                  THEN has_path_loop(st, rest, visited, to_id, edge_type)
                  ELSE LET Keep(e) == e.source_id = current /\ e.edge_type = edge_type
                           targets == IF st.fault = "edges.search" THEN <<>>
                                      ELSE TargetIds(FilterBag(st.edges, Keep))
                       IN  has_path_loop(st, rest \o targets,
                                         visited \cup {current}, to_id, edge_type)

\* the path search that follows the edges of any one type
has_path_AnyType(st, from_id, to_id, edge_type) ==
    IF st.fault = "edges.count_rows" THEN FALSE
    ELSE IF BagCardinality(st.edges) = 0 THEN FALSE
    ELSE \E ty \in EdgeType : has_path_loop(st, <<from_id>>, {}, to_id, ty)

\* the path search that never finds a path
has_path_Never(st, from_id, to_id, edge_type) == FALSE

\* an exception of the row count is caught and answered with False
has_path(st, from_id, to_id, edge_type) ==
    IF st.fault = "edges.count_rows" THEN FALSE
    ELSE IF BagCardinality(st.edges) = 0 THEN FALSE
    ELSE has_path_loop(st, <<from_id>>, {}, to_id, edge_type)

\* whether the store raised an exception inside _has_path: on the row count, or on
\* the edge search of the first node popped (from_id, unless it is to_id)
has_path_raised(st, from_id, to_id, edge_type) ==
    \/ st.fault = "edges.count_rows"
    \/ /\ st.fault = "edges.search"
       /\ BagCardinality(st.edges) # 0
       /\ from_id # to_id

\* add_edge returns the store after the call, how the call ended: "ok", or the
\* exception raised (ValueError is NotFound at the API, an exception of the store
\* is StorageError), and whether the store raised an exception during the call
add_edge(st, edge) ==
    LET source == get_node(st, edge.source_id)
        target == get_node(st, edge.target_id)
        checked == edge.edge_type = DEPENDS_ON
        raised == checked /\ has_path_raised(st, edge.target_id, edge.source_id, DEPENDS_ON)
    IN  IF st.fault = "nodes.search"
        THEN [st |-> st, result |-> "StorageError", store_raised |-> TRUE]
        ELSE IF source = NoNode \/ target = NoNode
        THEN [st |-> st, result |-> "NotFound", store_raised |-> FALSE]
        ELSE IF ~validate_edge(source, target, edge.edge_type)
        THEN [st |-> st, result |-> "InvalidEdgeType", store_raised |-> FALSE]
        ELSE IF checked /\ has_path(st, edge.target_id, edge.source_id, DEPENDS_ON)
        THEN [st |-> st, result |-> "CyclicDependency", store_raised |-> raised]
        ELSE IF st.fault = "edges.add"
        THEN [st |-> st, result |-> "StorageError", store_raised |-> TRUE]
        ELSE [st |-> [st EXCEPT !.edges = @ (+) SetToBag({edge})], result |-> "ok",
              store_raised |-> raised]

\* get_neighbors that appends a neighbor for every matching edge row
get_neighbors_list_NoSet(st, node_id, edge_type, direction) ==
    LET out == IF direction \in {"outgoing", "both"}
               THEN get_edges(st, node_id, NoId, edge_type) ELSE EmptyBag
        inc == IF direction \in {"incoming", "both"}
               THEN get_edges(st, NoId, node_id, edge_type) ELSE EmptyBag
        Rows(nid) == {e \in DOMAIN out : e.target_id = nid}
        RowsIn(nid) == {e \in DOMAIN inc : e.source_id = nid}
        RECURSIVE Sum(_, _)
        Sum(b, S) == IF S = {} THEN 0
                     ELSE LET e == CHOOSE x \in S : TRUE IN b[e] + Sum(b, S \ {e})
        neighbor_ids == {e.target_id : e \in DOMAIN out} \cup {e.source_id : e \in DOMAIN inc}
        resolved == {n \in neighbor_ids : get_node(st, n) # NoNode}
    IN  [nid \in resolved |-> Sum(out, Rows(nid)) + Sum(inc, RowsIn(nid))]

\* get_neighbors that appends a neighbor for every id collected, resolved or not
get_neighbors_list_Unresolved(st, node_id, edge_type, direction) ==
    LET outgoing == IF direction \in {"outgoing", "both"}
                    THEN {e.target_id : e \in DOMAIN get_edges(st, node_id, NoId, edge_type)}
                    ELSE {}
        incoming == IF direction \in {"incoming", "both"}
                    THEN {e.source_id : e \in DOMAIN get_edges(st, NoId, node_id, edge_type)}
                    ELSE {}
    IN  SetToBag(outgoing \cup incoming)

\* the list get_neighbors returns, as a bag of node ids: the ids are collected in a
\* set, and each id that get_node resolves is appended once
get_neighbors_list(st, node_id, edge_type, direction) ==
    LET outgoing == IF direction \in {"outgoing", "both"}
                    THEN {e.target_id : e \in DOMAIN get_edges(st, node_id, NoId, edge_type)}
                    ELSE {}
        incoming == IF direction \in {"incoming", "both"}
                    THEN {e.source_id : e \in DOMAIN get_edges(st, NoId, node_id, edge_type)}
                    ELSE {}
        neighbor_ids == outgoing \cup incoming
    IN  SetToBag({n \in neighbor_ids : get_node(st, n) # NoNode})

get_neighbors(st, node_id, edge_type, direction) ==
    {get_node(st, nid) : nid \in BagToSet(get_neighbors_list(st, node_id, edge_type, direction))}

get_predecessors(st, node_id, edge_type) == get_neighbors(st, node_id, edge_type, "incoming")

get_successors(st, node_id, edge_type) == get_neighbors(st, node_id, edge_type, "outgoing")

\* The placeholder vectors are pseudo-random: two different texts are some way
\* apart, and no two texts are equally far from a third. The texts are numbered
\* and the distances between different texts are all different.
TextNumber(text) == CASE text = "c1" -> 1 [] text = "c2" -> 2 [] OTHER -> 3

\* _distance: the L2 distance of a stored vector from the query vector, both as
\* 32-bit floats; 0 for the vectors of one text
Distance(vector, query_vector) ==
    IF vector.seed = query_vector.seed THEN 0
    ELSE TextNumber(vector.seed) + TextNumber(query_vector.seed)

\* the place of a node id in scan, the order the table hands out its rows in
Position(scan, id) == CHOOSE i \in 1..Len(scan) : scan[i] = id

\* the rows nearest first; rows equally far keep the order of the scan
RECURSIVE NearestFirst(_, _, _)
NearestFirst(rows, scan, query_vector) ==
    IF rows = {} THEN <<>>
    ELSE LET Before(a, b) ==
                 \/ Distance(a.vector, query_vector) < Distance(b.vector, query_vector)
                 \/ /\ Distance(a.vector, query_vector) = Distance(b.vector, query_vector)
                    /\ Position(scan, a.id) <= Position(scan, b.id)
             first == CHOOSE r \in rows : \A x \in rows : Before(r, x)
         IN  <<first>> \o NearestFirst(rows \ {first}, scan, query_vector)

\* seq[:n] of Python
Prefix(seq, n) ==
    IF n >= 0 THEN SubSeq(seq, 1, IF n < Len(seq) THEN n ELSE Len(seq))
    ELSE SubSeq(seq, 1, IF Len(seq) + n > 0 THEN Len(seq) + n ELSE 0)

\* search_by_vector that hands out the farthest rows first
search_by_vector_FarthestFirst(st, scan, query_vector, limit, node_type) ==
    LET rows == {r \in st.nodes : node_type # None => r.type = node_type}
        nearest == NearestFirst(rows, scan, query_vector)
        results == Prefix([i \in 1..Len(nearest) |-> nearest[Len(nearest) + 1 - i]], limit)
    IN  [i \in 1..Len(results) |->
            [node |-> record_to_node(results[i]),
             distance |-> Distance(results[i].vector, query_vector)]]

\* the (node, distance) pairs of the limit nearest rows, nearest first
search_by_vector(st, scan, query_vector, limit, node_type) ==
    LET rows == {r \in st.nodes : node_type # None => r.type = node_type}
        results == Prefix(NearestFirst(rows, scan, query_vector), limit)
    IN  [i \in 1..Len(results) |->
            [node |-> record_to_node(results[i]),
             distance |-> Distance(results[i].vector, query_vector)]]

\* ---------------------------------------------------------- EmbeddingService
\* service is the rerank capability: not available (no API key: the placeholder),
\* or available, with reply the indices of the "results" the remote model sends.
\* The placeholder answers the first top_n documents in their order.
Placeholder == [available |-> FALSE, reply |-> <<>>]

\* the placeholder that answers every document, whatever top_n is
rerank_AllDocuments(service, query, documents, top_n) ==
    IF documents = <<>> THEN <<>>
    ELSE IF ~service.available
    THEN [i \in 1..Len(documents) |-> i - 1]
    ELSE service.reply

rerank(service, query, documents, top_n) ==
    IF documents = <<>> THEN <<>>
    ELSE IF ~service.available
    THEN LET n == IF top_n # 0 THEN top_n ELSE Len(documents)
         IN  [i \in 1..Len(Prefix(documents, n)) |-> i - 1]
    ELSE service.reply

\* ---------------------------------------------------------------- MemoryGraph
\* Each operation returns [st |-> the store after the call, result |-> its value].

\* id is the fresh uuid4 and now is datetime.now(), both taken by Event(...);
\* data is an EventCreate
create_event(st, id, now, data) ==
    LET event == EventNode(id, data.content, now, now, data.metadata,
                           embed_text(data.content),
                           PENDING, data.due_date, data.priority)
    IN  [st |-> add_node(st, event), result |-> event]

\* update_event that lets the status move only forwards along
\* PENDING, IN_PROGRESS, DONE, ARCHIVED
update_event_ForwardOnly(st, event_id, now, data) ==
    LET event == get_node(st, event_id)
        Rank(status) == CASE status = PENDING -> 1
                          [] status = IN_PROGRESS -> 2
                          [] status = DONE -> 3
                          [] OTHER -> 4
    IN  IF event = NoNode \/ ~isEvent(event) THEN [st |-> st, result |-> NoNode]
        ELSE LET e1 == IF data.content # None
                       THEN [event EXCEPT !.content = data.content,
                                          !.embedding = embed_text(data.content)]
                       ELSE event
                 e2 == IF data.metadata # None THEN [e1 EXCEPT !.metadata = data.metadata]
                       ELSE e1
                 e3 == IF data.status # None /\ Rank(data.status) >= Rank(e2.status)
                       THEN [e2 EXCEPT !.status = data.status] ELSE e2
                 e4 == IF data.due_date # NoTime THEN [e3 EXCEPT !.due_date = data.due_date]
                       ELSE e3
                 e5 == IF data.priority # NoPriority
                       THEN [e4 EXCEPT !.priority = data.priority] ELSE e4
             IN  [st |-> update_node(st, e5, now),
                  result |-> [e5 EXCEPT !.updated_at = now]]

\* update_event that updates whatever node the id resolves to
update_event_AnyKind(st, event_id, now, data) ==
    LET event == get_node(st, event_id)
    IN  IF event = NoNode THEN [st |-> st, result |-> NoNode]
        ELSE LET e1 == IF data.status # None /\ isEvent(event)
                       THEN [event EXCEPT !.status = data.status] ELSE event
             IN  [st |-> update_node(st, e1, now),
                  result |-> [e1 EXCEPT !.updated_at = now]]

\* data is an EventUpdate: a field that was not supplied is None; the result is
\* the object handed to update_node, with the update time set on it
update_event(st, event_id, now, data) ==
    LET event == get_node(st, event_id)
    IN  IF event = NoNode \/ ~isEvent(event) THEN [st |-> st, result |-> NoNode]
        ELSE LET e1 == IF data.content # None
                       THEN [event EXCEPT !.content = data.content,
                                          !.embedding = embed_text(data.content)]
                       ELSE event
                 e2 == IF data.metadata # None THEN [e1 EXCEPT !.metadata = data.metadata]
                       ELSE e1
                 e3 == IF data.status # None THEN [e2 EXCEPT !.status = data.status] ELSE e2
                 e4 == IF data.due_date # NoTime THEN [e3 EXCEPT !.due_date = data.due_date]
                       ELSE e3
                 e5 == IF data.priority # NoPriority
                       THEN [e4 EXCEPT !.priority = data.priority] ELSE e4
             IN  [st |-> update_node(st, e5, now),
                  result |-> [e5 EXCEPT !.updated_at = now]]

\* data is a NoteCreate
create_note(st, id, now, data) ==
    LET text_for_embedding ==
            IF data.title # "" THEN data.title \o "\n" \o data.content ELSE data.content
        note == NoteNode(id, data.content, now, now, data.metadata,
                         embed_text(text_for_embedding),
                         data.title, data.tags, data.source)
    IN  [st |-> add_node(st, note), result |-> note]

\* update_note that recomputes the embedding only when the content is supplied
update_note_EmbedOnContentOnly(st, note_id, now, data) ==
    LET note == get_node(st, note_id)
    IN  IF note = NoNode \/ ~isNote(note) THEN [st |-> st, result |-> NoNode]
        ELSE LET n1 == IF data.content # None THEN [note EXCEPT !.content = data.content]
                       ELSE note
                 n2 == IF data.metadata # None THEN [n1 EXCEPT !.metadata = data.metadata]
                       ELSE n1
                 n3 == IF data.title # None THEN [n2 EXCEPT !.title = data.title] ELSE n2
                 n4 == IF data.tags # None THEN [n3 EXCEPT !.tags = data.tags] ELSE n3
                 n5 == IF data.source # None THEN [n4 EXCEPT !.source = data.source] ELSE n4
                 text_for_embedding ==
                     IF n5.title # "" THEN n5.title \o "\n" \o n5.content ELSE n5.content
                 n6 == IF data.content # None
                       THEN [n5 EXCEPT !.embedding = embed_text(text_for_embedding)]
                       ELSE n5
             IN  [st |-> update_node(st, n6, now),
                  result |-> [n6 EXCEPT !.updated_at = now]]

\* data is a NoteUpdate: a field that was not supplied is None
update_note(st, note_id, now, data) ==
    LET note == get_node(st, note_id)
    IN  IF note = NoNode \/ ~isNote(note) THEN [st |-> st, result |-> NoNode]
        ELSE LET n1 == IF data.content # None THEN [note EXCEPT !.content = data.content]
                       ELSE note
                 n2 == IF data.metadata # None THEN [n1 EXCEPT !.metadata = data.metadata]
                       ELSE n1
                 n3 == IF data.title # None THEN [n2 EXCEPT !.title = data.title] ELSE n2
                 n4 == IF data.tags # None THEN [n3 EXCEPT !.tags = data.tags] ELSE n3
                 n5 == IF data.source # None THEN [n4 EXCEPT !.source = data.source] ELSE n4
                 content_changed == data.content # None \/ data.title # None
                 text_for_embedding ==
                     IF n5.title # "" THEN n5.title \o "\n" \o n5.content ELSE n5.content
                 n6 == IF content_changed
                       THEN [n5 EXCEPT !.embedding = embed_text(text_for_embedding)]
                       ELSE n5
             IN  [st |-> update_node(st, n6, now),
                  result |-> [n6 EXCEPT !.updated_at = now]]

get_event(st, event_id) ==
    LET node == get_node(st, event_id)
    IN  IF node # NoNode /\ isEvent(node) THEN node ELSE NoNode

link_nodes(st, data) == add_edge(st, Edge(data.source_id, data.target_id, data.edge_type))

unlink_nodes(st, source_id, target_id, edge_type) ==
    [st |-> delete_edge(st, source_id, target_id, edge_type), result |-> TRUE]

\* the list of edges, as a bag: outgoing rows followed by incoming rows
get_node_edges(st, node_id, edge_type, direction) ==
    (IF direction \in {"outgoing", "both"}
     THEN get_edges(st, node_id, NoId, edge_type) ELSE EmptyBag)
    (+)
    (IF direction \in {"incoming", "both"}
     THEN get_edges(st, NoId, node_id, edge_type) ELSE EmptyBag)

\* search returns [found |-> the ids of the nodes returned, result |-> "ok" or the
\* exception raised, candidates |-> the ids search_by_vector retrieved,
\* rerank_called |-> whether the rerank capability was called]
SearchResult(found, result, candidates, rerank_called) ==
    [found |-> found, result |-> result, candidates |-> candidates,
     rerank_called |-> rerank_called]

\* search that returns every candidate when it does not rerank
search_Untruncated(st, scan, service, query, limit, node_type, rerank_flag) ==
    LET query_embedding == embed_text(query)
        results == search_by_vector(st, scan, query_embedding, limit * 2, node_type)
        candidates == [i \in 1..Len(results) |-> results[i].node.id]
    IN  SearchResult(candidates, "ok", candidates, FALSE)

\* search that retrieves limit candidates
search_SingleFetch(st, scan, service, query, limit, node_type, rerank_flag) ==
    LET query_embedding == embed_text(query)
        results == search_by_vector(st, scan, query_embedding, limit, node_type)
        candidates == [i \in 1..Len(results) |-> results[i].node.id]
        documents == [i \in 1..Len(results) |-> results[i].node.content]
        reranked == rerank(service, query, documents, limit)
        InBound(idx) == idx < Len(candidates)
        kept == SelectSeq(reranked, InBound)
        reranked_nodes ==
            [i \in 1..Len(kept) |->
                candidates[IF kept[i] >= 0 THEN kept[i] + 1 ELSE Len(candidates) + kept[i] + 1]]
    IN  IF results = <<>> THEN SearchResult(<<>>, "ok", <<>>, FALSE)
        ELSE IF rerank_flag /\ Len(candidates) > 1
        THEN IF \E i \in 1..Len(kept) : kept[i] < 0 - Len(candidates)
             THEN SearchResult(<<>>, "IndexError", candidates, TRUE)
             ELSE SearchResult(reranked_nodes, "ok", candidates, TRUE)
        ELSE SearchResult(Prefix(candidates, limit), "ok", candidates, FALSE)

\* candidates is the list nodes of the code; nodes[idx] of Python counts a negative
\* idx from the end of the list and raises IndexError for idx < -len(nodes)
search(st, scan, service, query, limit, node_type, rerank_flag) ==
    LET query_embedding == embed_text(query)
        results == search_by_vector(st, scan, query_embedding, limit * 2, node_type)
        candidates == [i \in 1..Len(results) |-> results[i].node.id]
        documents == [i \in 1..Len(results) |-> results[i].node.content]
        reranked == rerank(service, query, documents, limit)
        InBound(idx) == idx < Len(candidates)
        kept == SelectSeq(reranked, InBound)
        reranked_nodes ==
            [i \in 1..Len(kept) |->
                candidates[IF kept[i] >= 0 THEN kept[i] + 1 ELSE Len(candidates) + kept[i] + 1]]
    IN  IF results = <<>> THEN SearchResult(<<>>, "ok", <<>>, FALSE)
        ELSE IF rerank_flag /\ Len(candidates) > 1
        THEN IF \E i \in 1..Len(kept) : kept[i] < 0 - Len(candidates)
             THEN SearchResult(<<>>, "IndexError", candidates, TRUE)
             ELSE SearchResult(reranked_nodes, "ok", candidates, TRUE)
        ELSE SearchResult(Prefix(candidates, limit), "ok", candidates, FALSE)

\* find_related that does not filter out the source node
find_related_WithSource(st, scan, node_id, limit, same_type) ==
    LET node == get_node(st, node_id)
        node_type == IF same_type THEN node.type ELSE None
        results == search_by_vector(st, scan, node.embedding, limit + 1, node_type)
    IN  IF node = NoNode \/ node.embedding = NoEmbedding THEN <<>>
        ELSE Prefix([i \in 1..Len(results) |-> results[i].node.id], limit)

\* the ids of the nodes found, in the order of the list returned
find_related(st, scan, node_id, limit, same_type) ==
    LET node == get_node(st, node_id)
        node_type == IF same_type THEN node.type ELSE None
        results == search_by_vector(st, scan, node.embedding, limit + 1, node_type)
        found == [i \in 1..Len(results) |-> results[i].node.id]
        NotSource(id) == id # node_id
    IN  IF node = NoNode \/ node.embedding = NoEmbedding THEN <<>>
        ELSE Prefix(SelectSeq(found, NotSource), limit)

\* None where a GraphContext is expected
NoGraphContext ==
    [main |-> NoNode, dependencies |-> {}, subtasks |-> {}, references |-> {},
     produces |-> {}]

\* the ids of a list of nodes
Ids(node_list) == {n.id : n \in node_list}

\* resolve_context that resolves Events only
resolve_context_EventsOnly(st, node_id) ==
    LET main == get_event(st, node_id)
    IN  IF main = NoNode THEN NoGraphContext
        ELSE [main |-> main,
              dependencies |-> Ids(get_neighbors(st, node_id, DEPENDS_ON, "incoming")),
              subtasks |-> Ids(get_neighbors(st, node_id, PART_OF, "incoming")),
              references |-> Ids(get_neighbors(st, node_id, REFERENCES, "both")),
              produces |-> Ids(get_neighbors(st, node_id, PRODUCES, "outgoing"))]

\* the neighbor lists are reported by the ids of their nodes
resolve_context(st, node_id) ==
    LET main == get_node(st, node_id)
    IN  IF main = NoNode THEN NoGraphContext
        ELSE [main |-> main,
              dependencies |-> Ids(get_neighbors(st, node_id, DEPENDS_ON, "incoming")),
              subtasks |-> Ids(get_neighbors(st, node_id, PART_OF, "incoming")),
              references |-> Ids(get_neighbors(st, node_id, REFERENCES, "both")),
              produces |-> Ids(get_neighbors(st, node_id, PRODUCES, "outgoing"))]

\* None where an execution context is expected
NoContext ==
    [event |-> NoId, blocking_dependencies |-> {}, context_notes |-> {}, subtasks |-> {},
     can_execute |-> FALSE]

\* the readiness test that counts only PENDING predecessors as blocking
get_event_execution_context_PendingOnly(st, event_id) ==
    LET event == get_event(st, event_id)
    IN  IF event = NoNode THEN NoContext
        ELSE LET blockers == get_predecessors(st, event_id, DEPENDS_ON)
                 blocking == {e \in blockers : isEvent(e) /\ e.status = PENDING}
                 references == get_successors(st, event_id, REFERENCES)
                 context_notes == {n \in references : isNote(n)}
                 subtasks == get_predecessors(st, event_id, PART_OF)
                 sub_events == {e \in subtasks : isEvent(e)}
             IN  [event |-> event_id,
                  blocking_dependencies |-> {e.id : e \in blocking},
                  context_notes |-> {n.id : n \in context_notes},
                  subtasks |-> {e.id : e \in sub_events},
                  can_execute |-> Cardinality(blocking) = 0]

\* the execution context that takes the reference notes from the incoming edges
get_event_execution_context_IncomingReferences(st, event_id) ==
    LET event == get_event(st, event_id)
    IN  IF event = NoNode THEN NoContext
        ELSE LET blockers == get_predecessors(st, event_id, DEPENDS_ON)
                 blocking == {e \in blockers : isEvent(e) /\ e.status # DONE}
                 references == get_predecessors(st, event_id, REFERENCES)
                 context_notes == {n \in references : isNote(n)}
                 subtasks == get_predecessors(st, event_id, PART_OF)
                 sub_events == {e \in subtasks : isEvent(e)}
             IN  [event |-> event_id,
                  blocking_dependencies |-> {e.id : e \in blocking},
                  context_notes |-> {n.id : n \in context_notes},
                  subtasks |-> {e.id : e \in sub_events},
                  can_execute |-> Cardinality(blocking) = 0]

\* nodes are reported by their ids
get_event_execution_context(st, event_id) ==
    LET event == get_event(st, event_id)
    IN  IF event = NoNode THEN NoContext
        ELSE LET blockers == get_predecessors(st, event_id, DEPENDS_ON)
                 blocking == {e \in blockers : isEvent(e) /\ e.status # DONE}
                 references == get_successors(st, event_id, REFERENCES)
                 context_notes == {n \in references : isNote(n)}
                 subtasks == get_predecessors(st, event_id, PART_OF)
                 sub_events == {e \in subtasks : isEvent(e)}
             IN  [event |-> event_id,
                  blocking_dependencies |-> {e.id : e \in blocking},
                  context_notes |-> {n.id : n \in context_notes},
                  subtasks |-> {e.id : e \in sub_events},
                  can_execute |-> Cardinality(blocking) = 0]

\* -------------------------------------------------------------------- actions
\* the texts and update requests the operations are called with
Contents == {"c1"}
Titles == {""}
UpdateStatuses == {IN_PROGRESS, DONE}
EventCreates ==
    [content : Contents, metadata : {EmptyDict}, due_date : {NoTime}, priority : {0}]
NoteCreates ==
    [content : Contents, metadata : {EmptyDict}, title : Titles, tags : {EmptyList},
     source : {None}]
EventUpdates ==
    [content : Contents \cup {None}, metadata : {None}, status : UpdateStatuses \cup {None},
     due_date : {NoTime}, priority : {NoPriority}]
NoteUpdates ==
    [content : Contents \cup {None}, metadata : {None}, title : Titles \cup {None},
     tags : {None}, source : {None}]
EdgeCreates == [source_id : NodeIds, target_id : NodeIds, edge_type : EdgeType]

\* a create or update request with no field supplied
NoData ==
    [content |-> None, metadata |-> None, status |-> None, due_date |-> NoTime,
     priority |-> NoPriority, title |-> None, tags |-> None, source |-> None]

\* the request data, with the fields its model does not have left as not supplied
Request(data) == [f \in DOMAIN NoData |-> IF f \in DOMAIN data THEN data[f] ELSE NoData[f]]

\* ret while no call is in progress; a call fills in the fields it uses
NoRet ==
    [op |-> "idle", id |-> NoId, source_id |-> NoId, target_id |-> NoId, edge_type |-> None,
     data |-> NoData, status_before |-> None, fault |-> NoFault, store_raised |-> FALSE,
     query |-> None, limit |-> 0, node_type |-> None, rerank |-> FALSE, same_type |-> FALSE,
     direction |-> None, neighbors |-> EmptyBag,
     service |-> Placeholder, candidates |-> <<>>, found |-> <<>>, rerank_called |-> FALSE,
     result |-> None, node |-> NoNode, node_list |-> {}, context |-> NoContext,
     graph_context |-> NoGraphContext, edges |-> EmptyBag,
     changed |-> FALSE, edges_before |-> 0]

TaskIds == 1..MaxTasks

\* a slot for a call in flight, while no call is in it. pc is where the call is:
\* "embedding" (suspended at await embed_text), "deleted" (in update_node, after
\* delete_node and before add_node), "checked" (in add_edge, after the cycle check
\* and before edges_table.add). read is the node as get_node returned it, node the
\* object the call holds, replaced the node that update_node's delete_node removed,
\* edge the edge add_edge holds.
NoTask ==
    [pc |-> "idle", op |-> None, id |-> NoId, data |-> NoData, read |-> NoNode,
     node |-> NoNode, replaced |-> NoNode, edge |-> Edge(NoId, NoId, None)]

\* the node ids a path search is followed over
PathNodeIds == 1..MaxPathNodes

\* walk while no path search is followed; expanded counts, per node id, the times
\* the loop got past `if current in visited` and searched the out-edges of the id
NoWalk ==
    [pc |-> "idle", from_id |-> NoId, to_id |-> NoId, stack |-> <<>>, visited |-> {},
     expanded |-> [id \in PathNodeIds |-> 0], result |-> FALSE]

Init ==
    /\ nodes = {}
    /\ edges = EmptyBag
    /\ nextId = 1
    /\ clock = 1
    /\ tasks = [t \in TaskIds |-> NoTask]
    /\ walk = NoWalk
    /\ ret = NoRet

\* Calls run one at a time: a call starts when the previous one has returned.
Idle == ret = NoRet

\* what a call of op does to ret besides its own fields: whether the call changed
\* the store st into st2, and how many edge rows there were before it; a call on a
\* node also records the status the node had when the call started
Called(op, st, st2) ==
    [NoRet EXCEPT !.op = op, !.changed = (st2 # st),
                  !.edges_before = BagCardinality(st.edges)]

\* the store after a finished call becomes the new state
Commit(st) ==
    /\ nodes' = st.nodes
    /\ edges' = st.edges

\* create_event / create_note and update_event / update_note return a node or None
ReturnNode(op, id, data, r) ==
    ret' = [Called(op, Store, r.st) EXCEPT
                !.id = id, !.data = Request(data), !.node = r.result,
                !.status_before = get_node(Store, id).status,
                !.result = IF r.result = NoNode THEN None ELSE "ok"]

\* unlink_nodes returns True ("ok")
ReturnEdgeResult(op, data, r, result) ==
    ret' = [Called(op, Store, r.st) EXCEPT
                !.source_id = data.source_id, !.target_id = data.target_id,
                !.edge_type = data.edge_type, !.result = result]

\* datetime.now() returns now: the clock never runs backwards
ReadClock(now) ==
    /\ now >= clock
    /\ clock' = now

CreateEvent(data, now) ==
    LET r == create_event(Store, nextId, now, data)
    IN  /\ Idle
        /\ nextId <= MaxNodes
        /\ ReadClock(now)
        /\ Commit(r.st)
        /\ ReturnNode("create_event", nextId, data, r)
        /\ nextId' = nextId + 1
        /\ UNCHANGED <<tasks, walk>>

CreateNote(data, now) ==
    LET r == create_note(Store, nextId, now, data)
    IN  /\ Idle
        /\ nextId <= MaxNodes
        /\ ReadClock(now)
        /\ Commit(r.st)
        /\ ReturnNode("create_note", nextId, data, r)
        /\ nextId' = nextId + 1
        /\ UNCHANGED <<tasks, walk>>

\* the clock is read by update_node, which a call that returns None never reaches
UpdateEvent(event_id, data, now) ==
    LET r == update_event(Store, event_id, now, data)
    IN  /\ Idle
        /\ IF r.result = NoNode THEN UNCHANGED clock ELSE ReadClock(now)
        /\ Commit(r.st)
        /\ ReturnNode("update_event", event_id, data, r)
        /\ UNCHANGED <<nextId, tasks, walk>>

UpdateNote(note_id, data, now) ==
    LET r == update_note(Store, note_id, now, data)
    IN  /\ Idle
        /\ IF r.result = NoNode THEN UNCHANGED clock ELSE ReadClock(now)
        /\ Commit(r.st)
        /\ ReturnNode("update_note", note_id, data, r)
        /\ UNCHANGED <<nextId, tasks, walk>>

\* delete_event and delete_note are both db.delete_node, which returns True
DeleteNode(node_id) ==
    /\ Idle
    /\ Commit(delete_node(Store, node_id))
    /\ ret' = [Called("delete_node", Store, delete_node(Store, node_id)) EXCEPT
                   !.id = node_id, !.result = "ok"]
    /\ UNCHANGED <<nextId, clock, tasks, walk>>

\* the edge table holds at most MaxEdges rows; the store raises on the requests
\* named by fault, if any
LinkNodes(data, fault) ==
    LET r == link_nodes(FaultyStore(fault), data)
    IN  /\ Idle
        /\ r.result = "ok" => BagCardinality(edges) < MaxEdges
        /\ Commit(r.st)
        /\ ret' = [Called("link_nodes", FaultyStore(fault), r.st) EXCEPT
                       !.source_id = data.source_id, !.target_id = data.target_id,
                       !.edge_type = data.edge_type, !.result = r.result,
                       !.fault = fault, !.store_raised = r.store_raised]
        /\ UNCHANGED <<nextId, clock, tasks, walk>>

UnlinkNodes(source_id, target_id, edge_type) ==
    LET r == unlink_nodes(Store, source_id, target_id, edge_type)
    IN  /\ Idle
        /\ Commit(r.st)
        /\ ReturnEdgeResult("unlink_nodes", Edge(source_id, target_id, edge_type), r, "ok")
        /\ UNCHANGED <<nextId, clock, tasks, walk>>

GetNodeEdges(node_id) ==
    /\ Idle
    /\ ret' = [Called("get_node_edges", Store, Store) EXCEPT
                   !.id = node_id, !.result = "ok",
                   !.edges = get_node_edges(Store, node_id, None, "both")]
    /\ UNCHANGED <<nodes, edges, nextId, clock, tasks, walk>>

GetEventExecutionContext(event_id) ==
    LET context == get_event_execution_context(Store, event_id)
    IN  /\ Idle
        /\ ret' = [Called("get_event_execution_context", Store, Store) EXCEPT
                       !.id = event_id, !.context = context,
                       !.result = IF context = NoContext THEN None ELSE "ok"]
        /\ UNCHANGED <<nodes, edges, nextId, clock, tasks, walk>>

ResolveContext(node_id) ==
    LET context == resolve_context(Store, node_id)
    IN  /\ Idle
        /\ ret' = [Called("resolve_context", Store, Store) EXCEPT
                       !.id = node_id, !.graph_context = context,
                       !.result = IF context = NoGraphContext THEN None ELSE "ok"]
        /\ UNCHANGED <<nodes, edges, nextId, clock, tasks, walk>>

\* the listing scans, with the store raising on the requests named by fault, if any
GetAllNodes(node_type, fault) ==
    LET r == get_all_nodes(FaultyStore(fault), node_type)
    IN  /\ Idle
        /\ ret' = [Called("get_all_nodes", Store, Store) EXCEPT
                       !.node_list = Ids(r.list), !.result = r.result, !.fault = fault,
                       !.store_raised = scan_raised(FaultyStore(fault), "nodes",
                                                    node_type # None)]
        /\ UNCHANGED <<nodes, edges, nextId, clock, tasks, walk>>

GetEvents(status, fault) ==
    LET r == get_events(FaultyStore(fault), status)
    IN  /\ Idle
        /\ ret' = [Called("get_events", Store, Store) EXCEPT
                       !.node_list = Ids(r.list), !.result = r.result, !.fault = fault,
                       !.store_raised = scan_raised(FaultyStore(fault), "nodes", TRUE)]
        /\ UNCHANGED <<nodes, edges, nextId, clock, tasks, walk>>

GetNotes(fault) ==
    LET r == get_notes(FaultyStore(fault))
    IN  /\ Idle
        /\ ret' = [Called("get_notes", Store, Store) EXCEPT
                       !.node_list = Ids(r.list), !.result = r.result, !.fault = fault,
                       !.store_raised = scan_raised(FaultyStore(fault), "nodes", TRUE)]
        /\ UNCHANGED <<nodes, edges, nextId, clock, tasks, walk>>

\* filter is the source id, target id and edge type asked for (NoId, None: any)
GetEdges(filter, fault) ==
    LET list == get_edges(FaultyStore(fault), filter.source_id, filter.target_id,
                          filter.edge_type)
    IN  /\ Idle
        /\ ret' = [Called("get_edges", Store, Store) EXCEPT
                       !.source_id = filter.source_id, !.target_id = filter.target_id,
                       !.edge_type = filter.edge_type,
                       !.edges = list, !.result = "ok", !.fault = fault,
                       !.store_raised = scan_raised(FaultyStore(fault), "edges",
                                                    filter # Edge(NoId, NoId, None))]
        /\ UNCHANGED <<nodes, edges, nextId, clock, tasks, walk>>

\* scan is the order the node table hands out its rows in during the call
Search(query, limit, node_type, rerank_flag, scan, service) ==
    LET r == search(Store, scan, service, query, limit, node_type, rerank_flag)
    IN  /\ Idle
        /\ ret' = [Called("search", Store, Store) EXCEPT
                       !.query = query, !.limit = limit, !.node_type = node_type,
                       !.rerank = rerank_flag, !.service = service,
                       !.candidates = r.candidates, !.found = r.found,
                       !.rerank_called = r.rerank_called, !.result = r.result]
        /\ UNCHANGED <<nodes, edges, nextId, clock, tasks, walk>>

FindRelated(node_id, limit, same_type, scan) ==
    /\ Idle
    /\ ret' = [Called("find_related", Store, Store) EXCEPT
                   !.id = node_id, !.limit = limit, !.same_type = same_type,
                   !.found = find_related(Store, scan, node_id, limit, same_type),
                   !.result = "ok"]
    /\ UNCHANGED <<nodes, edges, nextId, clock, tasks, walk>>

\* the caller takes the result; the next call may start
Return ==
    /\ ~Idle
    /\ ret' = NoRet
    /\ UNCHANGED <<nodes, edges, nextId, clock, tasks, walk>>

Next ==
    \/ \E d \in EventCreates : CreateEvent(d, clock)
    \/ \E d \in NoteCreates : CreateNote(d, clock)
    \/ \E id \in NodeIds, d \in EventUpdates : UpdateEvent(id, d, clock)
    \/ \E id \in NodeIds, d \in NoteUpdates : UpdateNote(id, d, clock)
    \/ \E id \in NodeIds : DeleteNode(id)
    \/ \E d \in EdgeCreates : LinkNodes(d, NoFault)
    \/ \E d \in EdgeCreates : UnlinkNodes(d.source_id, d.target_id, d.edge_type)
    \/ \E id \in NodeIds : GetNodeEdges(id)
    \/ \E id \in NodeIds : GetEventExecutionContext(id)
    \/ Return

Spec == Init /\ [][Next]_vars

\* ------------------------------------------------------ the graph of a node
\* Creates, deletes, links and unlinks, and the context of a node read in every
\* state they lead to.
GraphNext ==
    \/ \E d \in EventCreates : CreateEvent(d, clock)
    \/ \E d \in NoteCreates : CreateNote(d, clock)
    \/ \E id \in NodeIds : DeleteNode(id)
    \/ \E d \in EdgeCreates : LinkNodes(d, NoFault)
    \/ \E d \in EdgeCreates : UnlinkNodes(d.source_id, d.target_id, d.edge_type)
    \/ \E id \in NodeIds : ResolveContext(id)
    \/ Return

SpecGraph == Init /\ [][GraphNext]_vars

\* ------------------------------------------------------ storage failures
\* Creates, deletes and links, with the record store raising an exception on the
\* requests of one kind during a link or a listing scan.
NodeFaults == {NoFault, "nodes.count_rows", "nodes.search", "nodes.to_pandas"}
EdgeFaults == {NoFault, "edges.count_rows", "edges.search", "edges.to_pandas"}
AddEdgeFaults == {NoFault, "nodes.search", "edges.count_rows", "edges.search", "edges.add"}
EdgeFilters == [source_id : {NoId, 1}, target_id : {NoId, 2}, edge_type : {None, DEPENDS_ON}]

FaultsNext ==
    \/ \E d \in EventCreates : CreateEvent(d, clock)
    \/ \E d \in NoteCreates : CreateNote(d, clock)
    \/ \E id \in NodeIds : DeleteNode(id)
    \/ \E d \in EdgeCreates, fault \in AddEdgeFaults : LinkNodes(d, fault)
    \/ \E node_type \in NodeType \cup {None}, fault \in NodeFaults :
           GetAllNodes(node_type, fault)
    \/ \E status \in {None, PENDING, DONE}, fault \in NodeFaults : GetEvents(status, fault)
    \/ \E fault \in NodeFaults : GetNotes(fault)
    \/ \E filter \in EdgeFilters, fault \in EdgeFaults : GetEdges(filter, fault)
    \/ Return

SpecFaults == Init /\ [][FaultsNext]_vars

\* ------------------------------------------------------ semantic search
\* Creates and deletes of nodes with two texts, and searches for a stored and for
\* an unknown text, with the placeholder rerank and with a remote rerank model
\* that sends any indices.
SearchEventCreates ==
    [content : {"c1", "c2"}, metadata : {EmptyDict}, due_date : {NoTime}, priority : {0}]
SearchNoteCreates ==
    [content : {"c1", "c2"}, metadata : {EmptyDict}, title : {""}, tags : {EmptyList},
     source : {None}]
Queries == {"c1", "c3"}
SearchLimits == {1, 2}
RelatedLimits == {0, 1, 2}
Scans == {scan \in [1..MaxNodes -> NodeIds] : \A i, j \in 1..MaxNodes : scan[i] = scan[j] => i = j}
RerankIndexes == {-4, -1, 0, 1, 3}
Replies == UNION {[1..n -> RerankIndexes] : n \in 0..MaxReply}
Services == {Placeholder} \cup {[available |-> TRUE, reply |-> reply] : reply \in Replies}

SearchNext ==
    \/ \E d \in SearchEventCreates : CreateEvent(d, clock)
    \/ \E d \in SearchNoteCreates : CreateNote(d, clock)
    \/ \E id \in NodeIds : DeleteNode(id)
    \/ \E query \in Queries, limit \in SearchLimits, node_type \in NodeType \cup {None},
          scan \in Scans :
           Search(query, limit, node_type, FALSE, scan, Placeholder)
    \/ \E query \in Queries, limit \in SearchLimits, node_type \in NodeType \cup {None},
          scan \in Scans, service \in Services :
           Search(query, limit, node_type, TRUE, scan, service)
    \/ \E id \in NodeIds, limit \in RelatedLimits, same_type \in BOOLEAN, scan \in Scans :
           FindRelated(id, limit, same_type, scan)
    \/ Return

SpecSearch == Init /\ [][SearchNext]_vars

\* ------------------------------------------------------ the fields of a node
\* Creates, updates and deletes with every field of the requests exercised and
\* the clock advancing between calls; no edges.
FieldContents == {"c1", "c2"}
FieldTitles == {"", "t1"}
FieldEventCreates ==
    [content : {"c1"}, metadata : {EmptyDict}, due_date : {NoTime}, priority : {0, 1}]
FieldNoteCreates ==
    [content : {"c1"}, metadata : {EmptyDict}, title : FieldTitles, tags : {EmptyList},
     source : {None}]
FieldEventUpdates ==
    [content : {None, "c2"}, metadata : {None, "{k}"}, status : EventStatus \cup {None},
     due_date : {NoTime, MaxTime}, priority : {NoPriority, 0, 1}]
FieldNoteUpdates ==
    [content : {None, "c2"}, metadata : {None, "{k}"}, title : FieldTitles \cup {None},
     tags : {None, "[x]"}, source : {None, "s"}]
Times == clock..MaxTime

FieldsNext ==
    \/ \E d \in FieldEventCreates, now \in Times :
           Cardinality(nodes) < MaxFieldNodes /\ CreateEvent(d, now)
    \/ \E d \in FieldNoteCreates, now \in Times :
           Cardinality(nodes) < MaxFieldNodes /\ CreateNote(d, now)
    \/ \E id \in NodeIds, d \in FieldEventUpdates, now \in Times : UpdateEvent(id, d, now)
    \/ \E id \in NodeIds, d \in FieldNoteUpdates, now \in Times : UpdateNote(id, d, now)
    \/ \E id \in NodeIds : DeleteNode(id)
    \/ Return

SpecFields == Init /\ [][FieldsNext]_vars

\* --------------------------------------------------------- requests in flight
\* The routes are coroutines of one event loop and the calls of the store are
\* synchronous: a request runs without interruption from one await to the next.
\* update_event awaits embed_text (when a content is supplied) between get_node and
\* update_node; link_nodes and delete_node await nothing. A request that is between
\* two requests to the store holds the loop: nothing else runs. The process may be
\* stopped at any point.

\* update_event up to its await: the event as read, with the content assigned;
\* NoNode when update_event returns None
update_event_read(st, event_id, data) ==
    LET event == get_node(st, event_id)
    IN  IF event = NoNode \/ ~isEvent(event) THEN NoNode
        ELSE IF data.content # None THEN [event EXCEPT !.content = data.content]
        ELSE event

\* update_event after its await that does not assign the status
update_event_write_KeepsStatus(event, data) ==
    IF data.content # None THEN [event EXCEPT !.embedding = embed_text(event.content)]
    ELSE event

\* update_event after its await: the object handed to update_node
update_event_write(event, data) ==
    LET e1 == IF data.content # None
              THEN [event EXCEPT !.embedding = embed_text(event.content)] ELSE event
        e2 == IF data.metadata # None THEN [e1 EXCEPT !.metadata = data.metadata] ELSE e1
        e3 == IF data.status # None THEN [e2 EXCEPT !.status = data.status] ELSE e2
        e4 == IF data.due_date # NoTime THEN [e3 EXCEPT !.due_date = data.due_date] ELSE e3
        e5 == IF data.priority # NoPriority THEN [e4 EXCEPT !.priority = data.priority]
              ELSE e4
    IN  e5

\* update_node whose delete removes the incident edges and leaves the node row
update_node_delete_EdgesOnly(st, node, now) ==
    [st EXCEPT !.edges = delete_node(st, node.id).edges]

\* the first half of update_node that deletes nothing
update_node_delete_InPlace(st, node, now) == st

\* the first half of update_node: the update time is set on the node and
\* delete_node has returned
update_node_delete(st, node, now) == delete_node(st, node.id)

\* the second half of update_node
update_node_add(st, node) == add_node(st, node)

\* add_edge after its checks: the row is added
add_edge_add(st, edge) == [st EXCEPT !.edges = @ (+) SetToBag({edge})]

\* a request is between two requests to the store
Running(t) == tasks[t].pc \in {"deleted", "checked"}

\* a loop that other requests can take while a request is between two requests to
\* the store
NoneRunning_Yielding == TRUE

NoneRunning == \A t \in TaskIds : ~Running(t)

\* the slot a new call takes
FreeSlot(t) == tasks[t] = NoTask /\ \A u \in TaskIds : u < t => tasks[u] # NoTask

\* update_event with a content: get_node, then the await of embed_text
BeginUpdateEvent(t, event_id, data) ==
    LET event == update_event_read(Store, event_id, data)
    IN  /\ Idle
        /\ NoneRunning
        /\ FreeSlot(t)
        /\ data.content # None
        /\ IF event = NoNode
           THEN /\ ret' = [Called("update_event", Store, Store) EXCEPT
                               !.id = event_id, !.data = Request(data)]
                /\ UNCHANGED tasks
           ELSE /\ tasks' = [tasks EXCEPT ![t] =
                                [NoTask EXCEPT !.pc = "embedding", !.op = "update_event",
                                               !.id = event_id, !.data = Request(data),
                                               !.read = get_node(Store, event_id),
                                               !.node = event]]
                /\ UNCHANGED ret
        /\ UNCHANGED <<nodes, edges, nextId, clock, walk>>

\* embed_text has returned: the fields are assigned and update_node starts
ResumeUpdateEvent(t, now) ==
    LET event == update_event_write(tasks[t].node, tasks[t].data)
        node == [event EXCEPT !.updated_at = now]
    IN  /\ Idle
        /\ NoneRunning
        /\ tasks[t].pc = "embedding"
        /\ ReadClock(now)
        /\ Commit(update_node_delete(Store, node, now))
        /\ tasks' = [tasks EXCEPT ![t].pc = "deleted", ![t].node = node,
                                  ![t].replaced = get_node(Store, node.id)]
        /\ UNCHANGED <<nextId, ret, walk>>

\* update_node goes on after delete_node: add_node, and update_event returns;
\* ret.status_before is the status of the node that update_node replaced
InsertNode(t) ==
    LET st == update_node_add(Store, tasks[t].node)
    IN  /\ tasks[t].pc = "deleted"
        /\ Commit(st)
        /\ ret' = [Called("update_event", Store, st) EXCEPT
                       !.id = tasks[t].id, !.data = tasks[t].data,
                       !.node = tasks[t].node, !.result = "ok",
                       !.status_before = tasks[t].replaced.status]
        /\ tasks' = [tasks EXCEPT ![t] = NoTask]
        /\ UNCHANGED <<nextId, clock, walk>>

\* link_nodes up to edges_table.add: the endpoints, the edge type and the cycle
\* check; an exception ends the call
CheckEdge(t, data) ==
    LET r == link_nodes(Store, data)
    IN  /\ Idle
        /\ NoneRunning
        /\ FreeSlot(t)
        /\ r.result = "ok" => BagCardinality(edges) < MaxEdges
        /\ IF r.result # "ok"
           THEN /\ ret' = [Called("link_nodes", Store, Store) EXCEPT
                               !.source_id = data.source_id, !.target_id = data.target_id,
                               !.edge_type = data.edge_type, !.result = r.result]
                /\ UNCHANGED tasks
           ELSE /\ tasks' = [tasks EXCEPT ![t] =
                                [NoTask EXCEPT !.pc = "checked", !.op = "link_nodes",
                                               !.edge = Edge(data.source_id, data.target_id,
                                                             data.edge_type)]]
                /\ UNCHANGED ret
        /\ UNCHANGED <<nodes, edges, nextId, clock, walk>>

\* add_edge goes on after its checks: the row is added, and link_nodes returns
PersistEdge(t) ==
    LET st == add_edge_add(Store, tasks[t].edge)
    IN  /\ tasks[t].pc = "checked"
        /\ Commit(st)
        /\ ret' = [Called("link_nodes", Store, st) EXCEPT
                       !.source_id = tasks[t].edge.source_id,
                       !.target_id = tasks[t].edge.target_id,
                       !.edge_type = tasks[t].edge.edge_type, !.result = "ok"]
        /\ tasks' = [tasks EXCEPT ![t] = NoTask]
        /\ UNCHANGED <<nextId, clock, walk>>

\* a request that reads: get_event, while no request holds the loop
GetEvent(event_id) ==
    LET node == get_event(Store, event_id)
    IN  /\ Idle
        /\ NoneRunning
        /\ ret' = [Called("get_event", Store, Store) EXCEPT
                       !.id = event_id, !.node = node,
                       !.result = IF node = NoNode THEN None ELSE "ok"]
        /\ UNCHANGED <<nodes, edges, nextId, clock, tasks, walk>>

\* the process stops while calls are in flight: the calls are gone, the tables stay
\* as they are; ret.id is the node of the update_node that was cut short, if any
Stop ==
    /\ Idle
    /\ \E t \in TaskIds : tasks[t] # NoTask
    /\ tasks' = [t \in TaskIds |-> NoTask]
    /\ ret' = [NoRet EXCEPT
                   !.op = "stopped",
                   !.id = IF \E t \in TaskIds : tasks[t].pc = "deleted"
                          THEN tasks[CHOOSE t \in TaskIds : tasks[t].pc = "deleted"].id
                          ELSE NoId]
    /\ UNCHANGED <<nodes, edges, nextId, clock, walk>>

\* Events with one content, updates that supply a content (and so await), and
\* DEPENDS_ON edges.
ConcurrentEventCreates ==
    [content : {"c1"}, metadata : {EmptyDict}, due_date : {NoTime}, priority : {0}]
ConcurrentEventUpdates ==
    [content : {"c2"}, metadata : {None}, status : {DONE}, due_date : {NoTime},
     priority : {NoPriority}]
    \cup [content : {"c3"}, metadata : {None}, status : {None}, due_date : {NoTime},
          priority : {NoPriority}]
ConcurrentNodeIds == 1..MaxConcurrentNodes
ConcurrentEdgeCreates ==
    [source_id : ConcurrentNodeIds, target_id : ConcurrentNodeIds, edge_type : {DEPENDS_ON}]

ConcurrentNext ==
    \/ \E d \in ConcurrentEventCreates :
           NoneRunning /\ nextId <= MaxConcurrentNodes /\ CreateEvent(d, clock)
    \/ \E id \in ConcurrentNodeIds : NoneRunning /\ DeleteNode(id)
    \/ \E t \in TaskIds, id \in ConcurrentNodeIds, d \in ConcurrentEventUpdates :
           BeginUpdateEvent(t, id, d)
    \/ \E t \in TaskIds : ResumeUpdateEvent(t, clock)
    \/ \E t \in TaskIds : InsertNode(t)
    \/ \E t \in TaskIds, d \in ConcurrentEdgeCreates : CheckEdge(t, d)
    \/ \E t \in TaskIds : PersistEdge(t)
    \/ \E id \in ConcurrentNodeIds : GetEvent(id)
    \/ Stop
    \/ NoneRunning /\ Return

SpecConcurrent == Init /\ [][ConcurrentNext]_vars

\* --------------------------------------------------------------- neighbors
\* get_neighbors over the tables as the service finds them when it opens the store:
\* any of the nodes 1 (an Event), 2 (a Note) and 3 (an Event), and up to
\* MaxNeighborRows edge rows between the three ids, also rows stored twice and rows
\* that name an id with no node row.
NeighborEdges ==
    [source_id : NodeIds, target_id : NodeIds, edge_type : {DEPENDS_ON, REFERENCES}]
EmptyStore == [nodes |-> {}, edges |-> EmptyBag, fault |-> NoFault]

\* the node row of the id, written by create_note (id 2) or create_event
NeighborRow(id) ==
    IF id = 2 THEN create_note(EmptyStore, id, 1, CHOOSE d \in NoteCreates : TRUE).st.nodes
    ELSE create_event(EmptyStore, id, 1, CHOOSE d \in EventCreates : TRUE).st.nodes

NeighborsInit ==
    /\ nextId = MaxNodes + 1
    /\ clock = 1
    /\ tasks = [t \in TaskIds |-> NoTask]
    /\ walk = NoWalk
    /\ ret = NoRet
    /\ \E S \in SUBSET NodeIds : nodes = UNION {NeighborRow(id) : id \in S}
    /\ \E S \in SUBSET NeighborEdges :
           /\ Cardinality(S) <= MaxNeighborRows
           /\ \E rows \in [S -> 1..2] :
                  /\ BagCardinality(rows) <= MaxNeighborRows
                  /\ edges = rows

GetNeighbors(node_id, edge_type, direction) ==
    /\ Idle
    /\ ret' = [Called("get_neighbors", Store, Store) EXCEPT
                   !.id = node_id, !.edge_type = edge_type, !.direction = direction,
                   !.result = "ok",
                   !.neighbors = get_neighbors_list(Store, node_id, edge_type, direction),
                   !.node_list = Ids(get_neighbors(Store, node_id, edge_type, direction))]
    /\ UNCHANGED <<nodes, edges, nextId, clock, tasks, walk>>

NeighborsNext ==
    \/ \E id \in NodeIds, edge_type \in EdgeType \cup {None},
          direction \in {"outgoing", "incoming", "both"} :
           GetNeighbors(id, edge_type, direction)
    \/ Return

SpecNeighbors == NeighborsInit /\ [][NeighborsNext]_vars

\* ------------------------------------------------------------ path search
\* _has_path followed one iteration of its while loop at a time, from every edge
\* table of at most MaxPathRows DEPENDS_ON rows over PathNodeIds: the rows may form
\* cycles and diamonds, and a row may be stored twice.
PathEdges == {Edge(s, t, DEPENDS_ON) : s, t \in PathNodeIds}

PathInit ==
    /\ nodes = {}
    /\ nextId = 1
    /\ clock = 1
    /\ tasks = [t \in TaskIds |-> NoTask]
    /\ walk = NoWalk
    /\ ret = NoRet
    /\ \E S \in SUBSET PathEdges :
           /\ Cardinality(S) <= MaxPathRows
           /\ \E rows \in [S -> 1..2] :
                  /\ BagCardinality(rows) <= MaxPathRows
                  /\ edges = rows

\* _has_path up to the loop: the row count, visited = set(), stack = [from_id]
has_path_begin(st, from_id, to_id) ==
    IF BagCardinality(st.edges) = 0
    THEN [NoWalk EXCEPT !.pc = "done", !.from_id = from_id, !.to_id = to_id]
    ELSE [NoWalk EXCEPT !.pc = "loop", !.from_id = from_id, !.to_id = to_id,
                        !.stack = <<from_id>>]

\* the iteration that never adds to visited
has_path_iteration_NoVisited(st, w, edge_type) ==
    LET current == w.stack[Len(w.stack)]
        rest == SubSeq(w.stack, 1, Len(w.stack) - 1)
        Keep(e) == e.source_id = current /\ e.edge_type = edge_type
    IN  IF current = w.to_id THEN [w EXCEPT !.pc = "done", !.result = TRUE, !.stack = rest]
        ELSE [w EXCEPT !.stack = rest \o TargetIds(FilterBag(st.edges, Keep)),
                       !.expanded[current] = @ + 1]

\* one iteration of `while stack:` with a stack that is not empty
has_path_iteration(st, w, edge_type) ==
    LET current == w.stack[Len(w.stack)]
        rest == SubSeq(w.stack, 1, Len(w.stack) - 1)
        Keep(e) == e.source_id = current /\ e.edge_type = edge_type
    IN  IF current = w.to_id THEN [w EXCEPT !.pc = "done", !.result = TRUE, !.stack = rest]
        ELSE IF current \in w.visited THEN [w EXCEPT !.stack = rest]
        ELSE [w EXCEPT !.stack = rest \o TargetIds(FilterBag(st.edges, Keep)),
                       !.visited = @ \cup {current},
                       !.expanded[current] = @ + 1]

BeginPath(from_id, to_id) ==
    /\ walk.pc = "idle"
    /\ walk' = has_path_begin(Store, from_id, to_id)
    /\ UNCHANGED <<nodes, edges, nextId, clock, tasks, ret>>

Iterate ==
    /\ walk.pc = "loop"
    /\ walk.stack # <<>>
    /\ walk' = has_path_iteration(Store, walk, DEPENDS_ON)
    /\ UNCHANGED <<nodes, edges, nextId, clock, tasks, ret>>

\* the stack is empty: the loop ends and _has_path returns False
EndPath ==
    /\ walk.pc = "loop"
    /\ walk.stack = <<>>
    /\ walk' = [walk EXCEPT !.pc = "done", !.result = FALSE]
    /\ UNCHANGED <<nodes, edges, nextId, clock, tasks, ret>>

PathNext ==
    \/ \E from_id \in PathNodeIds, to_id \in PathNodeIds : BeginPath(from_id, to_id)
    \/ Iterate
    \/ EndPath

\* _has_path is synchronous code: once called it runs on
SpecPath == PathInit /\ [][PathNext]_vars /\ WF_vars(PathNext)

\* ===================================================================== claims
\* Reference notions the claims are stated in, defined on the tables alone.

\* the store after the step
StoreNext == [nodes |-> nodes', edges |-> edges', fault |-> NoFault]

Exists(id) == \E r \in nodes : r.id = id
KindOf(id) == (CHOOSE r \in nodes : r.id = id).type
StatusOf(id) == (CHOOSE r \in nodes : r.id = id).status
ExistsEvent(id) == \E r \in nodes : r.id = id /\ r.type = EVENT

\* the ids one DEPENDS_ON edge away from a set of ids
DependsOnTargets(S) ==
    {e.target_id : e \in {x \in DOMAIN edges : x.edge_type = DEPENDS_ON /\ x.source_id \in S}}

RECURSIVE DependsOnClosure(_)
DependsOnClosure(S) ==
    LET T == S \cup DependsOnTargets(S)
    IN  IF T = S THEN S ELSE DependsOnClosure(T)

\* a path of one or more DEPENDS_ON edges leads from a to b
DependsOnPath(a, b) == b \in DependsOnClosure(DependsOnTargets({a}))

\* the validity matrix of the data model, as (source kind, target kind, edge type)
Matrix ==
    {<<EVENT, EVENT, DEPENDS_ON>>, <<EVENT, EVENT, PART_OF>>,
     <<NOTE, NOTE, REFERENCES>>,
     <<EVENT, NOTE, REFERENCES>>, <<EVENT, NOTE, PRODUCES>>,
     <<NOTE, EVENT, REFERENCES>>, <<NOTE, EVENT, PRODUCES>>}

\* the DEPENDS_ON predecessors of a node: the sources of DEPENDS_ON edges that target it
DependsOnPredecessors(id) ==
    {e.source_id : e \in {x \in DOMAIN edges : x.edge_type = DEPENDS_ON /\ x.target_id = id}}

\* a node whose stored status is DONE
IsDone(id) == \E r \in nodes : r.id = id /\ r.status = DONE

\* ------------------------------------------------------------------------ C1
\* C1: after any sequence of node and edge operations the persisted DEPENDS_ON
\* edges are acyclic: no node has a path of one or more DEPENDS_ON edges back to
\* itself, a self-loop included, also for the first edge put into an empty table.
C1_DependsOnAcyclic == \A n \in NodeIds : ~DependsOnPath(n, n)

\* ------------------------------------------------------------------------ C2
\* C2: add_edge of a DEPENDS_ON edge A->B between two existing Events, called when
\* a path of DEPENDS_ON edges from B to A exists, fails with CyclicDependency and
\* leaves the node table and the edge table as they were.
C2_CycleClosingEdgeRejected ==
    [][(/\ ret'.op = "link_nodes"
        /\ ret'.edge_type = DEPENDS_ON
        /\ ExistsEvent(ret'.source_id)
        /\ ExistsEvent(ret'.target_id)
        /\ DependsOnPath(ret'.target_id, ret'.source_id))
       => (/\ ret'.result = "CyclicDependency"
           /\ nodes' = nodes
           /\ edges' = edges)]_vars

\* a DEPENDS_ON edge between two different Events was refused as closing a cycle
C2_Witness ==
    /\ ret.op = "link_nodes"
    /\ ret.result = "CyclicDependency"
    /\ ret.source_id # ret.target_id
    /\ DependsOnPath(ret.target_id, ret.source_id)
    /\ ~(Edge(ret.target_id, ret.source_id, DEPENDS_ON) \in DOMAIN edges)

C5_ReadinessMatchesPredecessors ==
    (/\ ret.op = "get_event_execution_context"
     /\ ExistsEvent(ret.id))
    => /\ ret.result = "ok"
       /\ ret.context.can_execute <=> (\A p \in DependsOnPredecessors(ret.id) : IsDone(p))
       /\ ret.context.blocking_dependencies
              = {p \in DependsOnPredecessors(ret.id) : ~IsDone(p)}

\* an Event with one DONE predecessor and one IN_PROGRESS predecessor is reported
\* as blocked by the second alone
C5_Witness ==
    /\ ret.op = "get_event_execution_context"
    /\ ~ret.context.can_execute
    /\ \E p, q \in DependsOnPredecessors(ret.id) :
           /\ IsDone(p)
           /\ StatusOf(q) = IN_PROGRESS
           /\ ret.context.blocking_dependencies = {q}

\* ------------------------------------------------------------------------ C6
\* C6: after Events A and B are created and A is linked to B (source A, target B,
\* type DEPENDS_ON) while B is PENDING, get_event_execution_context(A) has
\* can_execute = false; once B is DONE it has can_execute = true.
C6_SourceWaitsForPendingTarget ==
    (/\ ret.op = "get_event_execution_context"
     /\ ExistsEvent(ret.id))
    => \A b \in NodeIds \ {ret.id} :
          (/\ Edge(ret.id, b, DEPENDS_ON) \in DOMAIN edges
           /\ ExistsEvent(b)
           /\ DependsOnPredecessors(ret.id) = {})
          => (ret.context.can_execute <=> IsDone(b))

\* ------------------------------------------------------------------------ C7
\* C7: update_event and update_note change the node record only: every edge
\* persisted before the update is persisted after it, and none is added.
C7_UpdateKeepsEdges ==
    [][(ret'.op \in {"update_event", "update_note"}) => edges' = edges]_vars

\* ------------------------------------------------------------------------ C8
\* C8: after delete_node(N) no persisted edge has N as source or target
\* (get_node_edges(N) is empty) and get_node(N) is absent, while every other node
\* and every edge not incident to N is as before.
C8_DeleteNodeCascades ==
    [][(ret'.op = "delete_node")
       => LET n == ret'.id
              NotIncident(e) == e.source_id # n /\ e.target_id # n
          IN  /\ get_node_edges(StoreNext, n, None, "both") = EmptyBag
              /\ \A e \in DOMAIN edges' : NotIncident(e)
              /\ get_node(StoreNext, n) = NoNode
              /\ {r \in nodes' : r.id # n} = {r \in nodes : r.id # n}
              /\ FilterBag(edges', NotIncident) = FilterBag(edges, NotIncident)]_vars

\* a delete removed a node together with edge rows and left other edges in place
C8_Witness ==
    /\ ret.op = "delete_node"
    /\ ret.changed
    /\ ret.edges_before > BagCardinality(edges)
    /\ edges # EmptyBag
    /\ nodes # {}

\* ------------------------------------------------------------------------ C9
\* C9: delete_node and delete_edge are idempotent: on a key that is absent (never
\* created, or deleted before) the call raises nothing, returns success and leaves
\* the store as it was, so a second delete of the same key changes nothing.
C9_DeleteIdempotent ==
    [][/\ (ret'.op = "delete_node" /\ ~Exists(ret'.id))
          => (ret'.result = "ok" /\ nodes' = nodes /\ edges' = edges)
       /\ (/\ ret'.op = "unlink_nodes"
           /\ ~(Edge(ret'.source_id, ret'.target_id, ret'.edge_type) \in DOMAIN edges))
          => (ret'.result = "ok" /\ nodes' = nodes /\ edges' = edges)
       /\ (ret'.op = "delete_node")
          => delete_node(StoreNext, ret'.id) = StoreNext
       /\ (ret'.op = "unlink_nodes")
          => delete_edge(StoreNext, ret'.source_id, ret'.target_id, ret'.edge_type)
                = StoreNext]_vars

\* a delete of a node that had been created and deleted before, with nodes and
\* edges still in the store; it changed nothing
C9_Witness ==
    /\ ret.op = "delete_node"
    /\ ret.result = "ok"
    /\ ret.id < nextId
    /\ ~ret.changed
    /\ nodes # {}
    /\ edges # EmptyBag

\* ----------------------------------------------------------------------- C10
\* C10: after every complete operation the source id and the target id of each
\* persisted edge resolve to existing nodes.
C10_EdgeEndpointsExist ==
    \A e \in DOMAIN edges : Exists(e.source_id) /\ Exists(e.target_id)

\* the edge table is full and a node created earlier has been deleted
C10_Witness ==
    /\ BagCardinality(edges) = MaxEdges
    /\ \E n \in NodeIds : n < nextId /\ ~Exists(n)

\* ----------------------------------------------------------------------- C11
\* an edge that closes a DEPENDS_ON cycle: a self-loop, or an edge whose target
\* already reaches its source over DEPENDS_ON edges
CycleClosing(source_id, target_id, edge_type) ==
    /\ edge_type = DEPENDS_ON
    /\ (source_id = target_id \/ DependsOnPath(target_id, source_id))

\* C11: add_edge checks in a fixed order and reports distinct error kinds: NotFound
\* if the source or the target node is missing, whatever the edge type; otherwise
\* InvalidEdgeType if the type is not allowed for the kinds of the endpoints;
\* otherwise CyclicDependency for a DEPENDS_ON edge that closes a cycle; and in each
\* failing case no edge is persisted and the store is as before.
C11_AddEdgeChecksInOrder ==
    [][(ret'.op = "link_nodes")
       => LET s == ret'.source_id
              t == ret'.target_id
              missing == ~Exists(s) \/ ~Exists(t)
              listed == IF missing THEN FALSE
                        ELSE <<KindOf(s), KindOf(t), ret'.edge_type>> \in Matrix
          IN  /\ missing => ret'.result = "NotFound"
              /\ (~missing /\ ~listed) => ret'.result = "InvalidEdgeType"
              /\ (~missing /\ listed /\ CycleClosing(s, t, ret'.edge_type))
                    => ret'.result = "CyclicDependency"
              /\ ret'.result # "ok" => (nodes' = nodes /\ edges' = edges)]_vars

\* ----------------------------------------------------------------------- C12
\* the value a field has after an update that supplied value (None: not supplied)
Overwritten(supplied, absent, previous) == IF supplied # absent THEN supplied ELSE previous

\* C12: a partial update overwrites only the supplied fields: after update_event or
\* update_note on an existing node of the expected kind each supplied field has the
\* supplied value, and the node's id, kind, creation timestamp and every field of
\* the request that was not supplied have the values they had before.
C12_PartialUpdateOverwritesSupplied ==
    [][(/\ ret'.op \in {"update_event", "update_note"}
        /\ Exists(ret'.id)
        /\ KindOf(ret'.id) = (IF ret'.op = "update_event" THEN EVENT ELSE NOTE))
       => LET d == ret'.data
              before == get_node(Store, ret'.id)
              after == get_node(StoreNext, ret'.id)
          IN  /\ ret'.result = "ok"
              /\ after # NoNode
              /\ after.id = before.id
              /\ after.type = before.type
              /\ after.created_at = before.created_at
              /\ after.content = Overwritten(d.content, None, before.content)
              /\ after.metadata = Overwritten(d.metadata, None, before.metadata)
              /\ after.status = Overwritten(d.status, None, before.status)
              /\ after.due_date = Overwritten(d.due_date, NoTime, before.due_date)
              /\ after.priority = Overwritten(d.priority, NoPriority, before.priority)
              /\ after.title = Overwritten(d.title, None, before.title)
              /\ after.tags = Overwritten(d.tags, None, before.tags)
              /\ after.source = Overwritten(d.source, None, before.source)
              /\ \A f \in DOMAIN NoNode \ {"embedding"} : ret'.node[f] = after[f]]_vars

\* an Event created earlier with priority 1, whose content was changed since, got
\* a new status and nothing else at a later time
C12_Witness ==
    /\ ret.op = "update_event"
    /\ ret.result = "ok"
    /\ ret.data = [NoData EXCEPT !.status = DONE]
    /\ ret.node.status = DONE
    /\ ret.node.content = "c2"
    /\ ret.node.priority = 1
    /\ ret.node.created_at < ret.node.updated_at
    /\ get_node(Store, ret.id).created_at = ret.node.created_at

\* ----------------------------------------------------------------------- C13
ExistsNote(id) == \E r \in nodes : r.id = id /\ r.type = NOTE

\* C13: update_event called with an id that is missing or that belongs to a Note,
\* and update_note called with an id that is missing or that belongs to an Event,
\* return absent without raising and leave every node and every edge of the store
\* as it was.
C13_UpdateOfOtherKindIsAbsent ==
    [][(\/ (ret'.op = "update_event" /\ ~ExistsEvent(ret'.id))
        \/ (ret'.op = "update_note" /\ ~ExistsNote(ret'.id)))
       => (/\ ret'.result = None
           /\ ret'.node = NoNode
           /\ nodes' = nodes
           /\ edges' = edges)]_vars

\* update_event was called with a new status and the id of a Note that has an
\* edge, while an Event is stored too
C13_Witness ==
    /\ ret.op = "update_event"
    /\ ret.result = None
    /\ ExistsNote(ret.id)
    /\ ret.data.status = DONE
    /\ ~ret.changed
    /\ \E e \in DOMAIN edges : e.source_id = ret.id \/ e.target_id = ret.id
    /\ \E n \in NodeIds : ExistsEvent(n)

\* ----------------------------------------------------------------------- C14
\* the text a stored node is embedded by: the content of an Event; for a Note the
\* title, a newline and the content when the title is not empty, else the content
EmbeddedText(r) ==
    IF r.type = NOTE /\ r.title # "" THEN r.title \o "\n" \o r.content ELSE r.content

\* C14 as stated: in every state reached after complete create and update
\* operations the embedding of each stored node equals the embedding of its
\* current embedded text.
C14_EmbeddingIsEmbeddingOfText ==
    \A r \in nodes : r.vector = embed_text(EmbeddedText(r))

\* C14 as amended: in every state reached after complete create and update
\* operations the embedding of each stored node equals the embedding of its
\* current embedded text rounded to the 32-bit floats of the vector column.
C14_EmbeddingIsRoundedEmbeddingOfText ==
    \A r \in nodes : r.vector = [seed |-> EmbeddedText(r), dtype |-> "float32"]

\* a Note whose content was changed earlier got a title by an update that supplied
\* the title alone
C14_Witness ==
    /\ ret.op = "update_note"
    /\ ret.result = "ok"
    /\ ret.data = [NoData EXCEPT !.title = "t1"]
    /\ \E r \in nodes : /\ r.id = ret.id
                        /\ r.content = "c2"
                        /\ r.title = "t1"
                        /\ r.vector.seed = "t1\nc2"

\* ----------------------------------------------------------------------- C15
\* C15: Event status transitions are unconstrained: update_event with a status s'
\* on an existing Event succeeds, whatever status s the Event has, and leaves the
\* stored status equal to s'; a newly created Event has status PENDING.
C15_AnyStatusTransition ==
    [][/\ (/\ ret'.op = "update_event"
           /\ ExistsEvent(ret'.id)
           /\ ret'.data.status # None)
          => (/\ ret'.result = "ok"
              /\ ret'.node.status = ret'.data.status
              /\ \E r \in nodes' : r.id = ret'.id /\ r.type = EVENT
                                                /\ r.status = ret'.data.status
              /\ \A r \in nodes' : r.id = ret'.id => r.status = ret'.data.status)
       /\ (ret'.op = "create_event")
          => (/\ ret'.node.status = PENDING
              /\ \E r \in nodes' : r.id = ret'.id /\ r.status = PENDING)]_vars

\* an ARCHIVED Event was set back to PENDING
C15_Witness ==
    /\ ret.op = "update_event"
    /\ ret.result = "ok"
    /\ ret.status_before = ARCHIVED
    /\ ret.data.status = PENDING
    /\ StatusOf(ret.id) = PENDING

\* ----------------------------------------------------------------------- C16
\* a node that no persisted edge has as source or target
Isolated(id) == \A e \in DOMAIN edges : e.source_id # id /\ e.target_id # id

\* C16: resolve_context(id) returns absent if and only if no node with that id
\* exists; for a node with no edges, as a freshly created one, it returns main
\* equal to that node and empty dependencies, subtasks, references and produces.
C16_ContextOfIsolatedNode ==
    (ret.op = "resolve_context")
    => /\ (ret.result = None) <=> ~Exists(ret.id)
       /\ (ret.graph_context = NoGraphContext) <=> ~Exists(ret.id)
       /\ (Exists(ret.id) /\ Isolated(ret.id))
          => LET r == CHOOSE x \in nodes : x.id = ret.id
                 main == ret.graph_context.main
             IN  /\ main.id = r.id
                 /\ main.type = r.type
                 /\ main.content = r.content
                 /\ main.embedding = r.vector
                 /\ main.created_at = r.created_at.iso
                 /\ r.type = EVENT => main.status = r.status
                 /\ r.type = NOTE => main.title = r.title
                 /\ ret.graph_context.dependencies = {}
                 /\ ret.graph_context.subtasks = {}
                 /\ ret.graph_context.references = {}
                 /\ ret.graph_context.produces = {}

\* the context of the Note created last, which has no edges, was resolved while
\* other nodes are linked
C16_Witness ==
    /\ ret.op = "resolve_context"
    /\ ret.result = "ok"
    /\ ret.id + 1 = nextId
    /\ ExistsNote(ret.id)
    /\ Isolated(ret.id)
    /\ edges # EmptyBag
    /\ ret.graph_context.main.id = ret.id

\* ----------------------------------------------------------------------- C17
\* C17: mutation-path failures always propagate: if the record store fails while
\* add_edge is validating or persisting a DEPENDS_ON edge, a failure of the edge
\* scan inside the cycle check included, add_edge reports a failure to the caller
\* and does not persist the edge; a storage failure is never treated as 'no path
\* found'.
C17_StorageFailurePropagates ==
    [][(/\ ret'.op = "link_nodes"
        /\ ret'.edge_type = DEPENDS_ON
        /\ ret'.store_raised)
       => (/\ ret'.result # "ok"
           /\ edges' = edges)]_vars

\* ----------------------------------------------------------------------- C18
\* C18: the listing scans get_all_nodes, get_events, get_notes and get_edges return
\* an empty list, never an error, when the store is empty or when the record store
\* raises during the scan, and they never modify the store.
C18_ScansSoftFail ==
    [][/\ (ret'.op \in {"get_all_nodes", "get_events", "get_notes"})
          => (/\ ret'.result = "ok"
              /\ (nodes = {} \/ ret'.store_raised) => ret'.node_list = {}
              /\ nodes' = nodes
              /\ edges' = edges)
       /\ (ret'.op = "get_edges")
          => (/\ ret'.result = "ok"
              /\ (edges = EmptyBag \/ ret'.store_raised) => ret'.edges = EmptyBag
              /\ nodes' = nodes
              /\ edges' = edges)]_vars

\* get_events returned an empty list because the search raised, while an Event
\* and an edge are stored
C18_Witness ==
    /\ ret.op = "get_events"
    /\ ret.fault = "nodes.search"
    /\ ret.store_raised
    /\ ret.result = "ok"
    /\ ret.node_list = {}
    /\ \E n \in NodeIds : ExistsEvent(n)
    /\ edges # EmptyBag

\* ----------------------------------------------------------------------- C19
\* the stored rows a search with the kind filter node_type may return
Matching(node_type) == {r \in nodes : node_type # None => r.type = node_type}

\* the distance of the stored node id from the text query
QueryDistance(id, query) ==
    Distance((CHOOSE r \in nodes : r.id = id).vector, embed_text(query))

\* C19: search with rerank = false returns exactly the first `limit` candidates of
\* the vector-similarity retrieval, in ascending order of distance, and never calls
\* the rerank capability; the same holds when rerank = true but at most one
\* candidate was retrieved.
C19_SearchWithoutRerank ==
    (/\ ret.op = "search"
     /\ (~ret.rerank \/ Len(ret.candidates) <= 1))
    => LET rows == Matching(ret.node_type)
           found == ret.found
           returned == {found[i] : i \in 1..Len(found)}
       IN  /\ ret.result = "ok"
           /\ ~ret.rerank_called
           /\ found = Prefix(ret.candidates, ret.limit)
           /\ Len(found) = (IF ret.limit < Cardinality(rows) THEN ret.limit
                            ELSE Cardinality(rows))
           /\ Cardinality(returned) = Len(found)
           /\ returned \subseteq {r.id : r \in rows}
           /\ \A i, j \in 1..Len(found) :
                  i < j => QueryDistance(found[i], ret.query)
                              <= QueryDistance(found[j], ret.query)
           /\ \A r \in rows : \A i \in 1..Len(found) :
                  r.id \notin returned
                  => QueryDistance(found[i], ret.query) <= QueryDistance(r.id, ret.query)

\* of three stored nodes a search without rerank and with limit 1 retrieved two
\* candidates and returned the nearest one, which is not the node created first
C19_Witness ==
    /\ ret.op = "search"
    /\ ~ret.rerank
    /\ ret.limit = 1
    /\ Cardinality(nodes) = 3
    /\ Len(ret.candidates) = 2
    /\ Len(ret.found) = 1
    /\ ret.found[1] # 1
    /\ QueryDistance(ret.found[1], ret.query) < QueryDistance(1, ret.query)

\* ----------------------------------------------------------------------- C20
\* the indices the rerank capability returned to the search held in ret
RerankReply ==
    IF ret.service.available THEN ret.service.reply
    ELSE [i \in 1..Len(Prefix(ret.candidates, ret.limit)) |-> i - 1]

\* C20: in search with rerank = true and more than one candidate, every index
\* returned by the rerank capability that lies outside the candidate list bounds
\* (negative, or >= the number of candidates) is dropped without raising an error,
\* and every returned node is the candidate at an in-bounds reranked index, in the
\* reranker's order.
C20_OutOfBoundsIndexDropped ==
    (/\ ret.op = "search"
     /\ ret.rerank
     /\ Len(ret.candidates) > 1)
    => LET InBounds(idx) == idx >= 0 /\ idx < Len(ret.candidates)
           kept == SelectSeq(RerankReply, InBounds)
       IN  /\ ret.rerank_called
           /\ ret.result = "ok"
           /\ ret.found = [i \in 1..Len(kept) |-> ret.candidates[kept[i] + 1]]

\* ----------------------------------------------------------------------- C21
\* C21: find_related(id, limit, same_type) never returns the source node itself,
\* returns at most `limit` nodes, returns an empty list when the node does not exist
\* or has no embedding, and when same_type is true returns only nodes of the source
\* node's kind.
C21_FindRelated ==
    ret.op = "find_related"
    => LET found == ret.found
           returned == {found[i] : i \in 1..Len(found)}
       IN  /\ ret.result = "ok"
           /\ ret.id \notin returned
           /\ Len(found) <= ret.limit
           /\ returned \subseteq {r.id : r \in nodes}
           /\ (\/ ~Exists(ret.id)
               \/ \A r \in nodes : r.id = ret.id => r.vector = NoEmbedding)
              => found = <<>>
           /\ ret.same_type
              => \A id \in returned : KindOf(id) = KindOf(ret.id)

\* find_related of an event, same_type true and limit 2, with an event and a note as
\* near as the source itself: the one other event is returned, and nothing else
C21_Witness ==
    /\ ret.op = "find_related"
    /\ ret.same_type
    /\ ret.limit = 2
    /\ Cardinality(nodes) = 3
    /\ KindOf(ret.id) = EVENT
    /\ \E r \in nodes : r.type = NOTE
    /\ \A r \in nodes : r.content = "c1"
    /\ Len(ret.found) = 1

\* ----------------------------------------------------------------------- C22
\* the stored notes with content T and an empty title
NotesWithContent(T) == {r \in nodes : r.type = NOTE /\ r.content = T /\ r.title = ""}

\* the search held in ret is search(T, limit >= 1, rerank = false) over all kinds
\* or over the notes
SearchesNotesFor(T) ==
    /\ ret.op = "search"
    /\ ret.query = T
    /\ ~ret.rerank
    /\ ret.limit >= 1
    /\ ret.node_type \in {None, NOTE}

EventUpdateFields == {"content", "metadata", "status", "due_date", "priority"}

\* task t is an update_event whose update_node inserts the node in this step
Inserts(t) == tasks[t].pc = "deleted" /\ tasks'[t] = NoTask /\ ret'.op = "update_event"

\* C23: when two update requests for the same node run concurrently (both read the
\* node, then both write), the outcome is last-write-wins with no merge: the stored
\* node equals the copy written by the update that persisted last, and a field
\* changed only by the other update is lost.
C23_LastWriteWins ==
    [][\A t \in TaskIds :
           Inserts(t)
           => LET stored == get_node(StoreNext, tasks[t].id)
                  data == tasks[t].data
                  read == tasks[t].read
              IN  /\ stored # NoNode
                  /\ \A r \in nodes' :
                         r.id = tasks[t].id => r = node_to_record(tasks[t].node)
                  /\ \A f \in EventUpdateFields :
                         stored[f] = IF data[f] # NoData[f] THEN data[f] ELSE read[f]
                  /\ \A f \in {"id", "type", "created_at"} : stored[f] = read[f]]_vars

\* an update that supplied no status has persisted last: it replaced the node another
\* update had set to done in the meantime, and the stored status is pending again
C23_Witness ==
    /\ ret.op = "update_event"
    /\ ret.result = "ok"
    /\ ret.data.status = None
    /\ ret.data.content = "c3"
    /\ ret.status_before = DONE
    /\ node_to_record(ret.node) \in nodes
    /\ ret.node.status = PENDING
    /\ ret.node.content = "c3"

\* ----------------------------------------------------------------------- C24
\* the request for the DEPENDS_ON edge in the other direction
Reverse(edge) == [source_id |-> edge.target_id, target_id |-> edge.source_id,
                  edge_type |-> edge.edge_type]

\* the add_edge call t for A->B has passed its cycle check and has not added its
\* row; the store as it is accepts B->A, and a slot is free for another call
Checked(t) ==
    /\ tasks[t].pc = "checked"
    /\ \E u \in TaskIds : tasks[u] = NoTask
    /\ link_nodes(Store, Reverse(tasks[t].edge)).result = "ok"
    /\ tasks[t].edge.edge_type = DEPENDS_ON
    /\ tasks[t].edge.source_id # tasks[t].edge.target_id

Deleted(t) == tasks[t].pc = "deleted"

\* no row of the edge table has node_id as an endpoint
NoEdgeAt(node_id) ==
    \A e \in DOMAIN edges : e.source_id # node_id /\ e.target_id # node_id

NodeMutation(kind, id, data) ==
    [kind |-> kind, id |-> id, data |-> Request(data), edge |-> Edge(NoId, NoId, None)]
EdgeMutation(kind, edge) == [kind |-> kind, id |-> NoId, data |-> NoData, edge |-> edge]

NodeMutations ==
    {NodeMutation("delete_node", id, NoData) : id \in NodeIds}
    \cup {NodeMutation("update_event", id, d) : id \in NodeIds, d \in EventUpdates}
    \cup {NodeMutation("update_note", id, d) : id \in NodeIds, d \in NoteUpdates}
LinkMutations == {EdgeMutation("link_nodes", e) : e \in EdgeCreates}
UnlinkMutations == {EdgeMutation("unlink_nodes", e) : e \in EdgeCreates}

\* the store after mutation m has run alone on the store st, at time clock
Run(st, m) ==
    CASE m.kind = "delete_node" -> delete_node(st, m.id)
      [] m.kind = "update_event" -> update_event(st, m.id, clock, m.data).st
      [] m.kind = "update_note" -> update_note(st, m.id, clock, m.data).st
      [] m.kind = "link_nodes" -> link_nodes(st, m.edge).st
      [] m.kind = "unlink_nodes" ->
             unlink_nodes(st, m.edge.source_id, m.edge.target_id, m.edge.edge_type).st

\* the store after the update_event u has read its node in st and awaits embed_text,
\* mutation m has run, and u has gone on to update_node
Interleaved(st, u, m) ==
    LET event == update_event_read(st, u.id, u.data)
    IN  IF event = NoNode THEN Run(st, m)
        ELSE update_node(Run(st, m), update_event_write(event, u.data), clock)

\* the node mutation m1 and the mutation m2 target different records: different
\* nodes, or a node and an edge that is not incident to it
DifferentRecords(m1, m2) ==
    IF m2.id # NoId THEN m1.id # m2.id
    ELSE m1.id # m2.edge.source_id /\ m1.id # m2.edge.target_id

\* every interleaving of m1 and m2 ends in the store of both serial orders
Independent(m1, m2) ==
    /\ Run(Run(Store, m1), m2) = Run(Run(Store, m2), m1)
    /\ (m1.kind = "update_event" /\ m1.data.content # None)
       => Interleaved(Store, m1, m2) = Run(Run(Store, m2), m1)

\* C26: concurrent mutations that target different records are independent: for two
\* concurrently running mutations on different nodes (or on a node and an edge not
\* incident to it), every interleaving ends in the same store state as running the
\* two operations serially in either order.
C26_DifferentRecordsIndependent ==
    Idle => \A m1 \in NodeMutations :
                \A m2 \in NodeMutations \cup LinkMutations \cup UnlinkMutations :
                    DifferentRecords(m1, m2) => Independent(m1, m2)

\* C26 as amended: mutations of two different nodes are independent, and so are a
\* mutation of a node and the removal of an edge, or the insertion of an edge that is
\* not DEPENDS_ON, that is not incident to the node. The insertion of a DEPENDS_ON
\* edge is not: its cycle check reads the edges of other nodes, which delete_node and
\* update_node remove.
C26_IndependentUnlessCycleChecked ==
    Idle => \A m1 \in NodeMutations :
                \A m2 \in NodeMutations \cup LinkMutations \cup UnlinkMutations :
                    (/\ DifferentRecords(m1, m2)
                     /\ m2.kind = "link_nodes" => m2.edge.edge_type # DEPENDS_ON)
                    => Independent(m1, m2)

\* a store in which a delete_node and the insertion of an edge between two other
\* nodes both change the store, and so does each after the other
C26_Witness ==
    /\ Idle
    /\ \E m1 \in NodeMutations, m2 \in LinkMutations :
           /\ DifferentRecords(m1, m2)
           /\ m1.kind = "delete_node"
           /\ m2.edge.edge_type # DEPENDS_ON
           /\ Run(Store, m1) # Store
           /\ Run(Store, m2) # Store
           /\ Run(Run(Store, m1), m2) # Run(Store, m1)
           /\ Run(Run(Store, m2), m1) # Run(Store, m2)
           /\ edges # EmptyBag

\* ----------------------------------------------------------------------- C27
\* node id was generated, the store holds no record of it, and no update_node is
\* between its delete_node and its add_node after removing the record itself: the
\* record was removed by a delete_node that returned (or lost at a stop)
Removed(id) ==
    /\ id < nextId
    /\ ~Exists(id)
    /\ \A t \in TaskIds : ~(Deleted(t) /\ tasks[t].replaced.id = id)

\* C27: once delete_node(N) has returned, get_node(N) is absent in every later
\* state, also when an update of N that read the node before the delete was
\* suspended at its embedding call and completes afterwards.
C27_DeletedNodeStaysAbsent ==
    [][\A id \in ConcurrentNodeIds : Removed(id) => get_node(Store', id) = NoNode]_vars

\* ----------------------------------------------------------------------- C28
\* the rows of the node table with the id
RecordsOf(id) == {r \in nodes : r.id = id}

\* C28: in every reachable state the store holds at most one record per node id,
\* also while updates of the same node run concurrently.
C28_OneRecordPerNodeId ==
    \A id \in ConcurrentNodeIds : Cardinality(RecordsOf(id)) <= 1

\* an update of a node has written its record while another update of the same node,
\* which read the record that was replaced, is suspended
C28_Witness ==
    /\ ret.op = "update_event"
    /\ ret.result = "ok"
    /\ Cardinality(RecordsOf(ret.id)) = 1
    /\ \E t \in TaskIds :
           /\ tasks[t].pc = "embedding"
           /\ tasks[t].id = ret.id
           /\ node_to_record(tasks[t].read) \notin nodes

\* ----------------------------------------------------------------------- C29
\* the ids one edge of any type away from a set of ids
AnyTargets(S) == {e.target_id : e \in {x \in DOMAIN edges : x.source_id \in S}}

RECURSIVE AnyClosure(_)
AnyClosure(S) ==
    LET T == S \cup AnyTargets(S)
    IN  IF T = S THEN S ELSE AnyClosure(T)

\* a path of one or more edges of any type leads from a to b
AnyPath(a, b) == b \in AnyClosure(AnyTargets({a}))

\* C29: the cycle check applies only to DEPENDS_ON: add_edge of a PART_OF,
\* REFERENCES or PRODUCES edge never fails with CyclicDependency, even when the edge
\* closes a cycle or is a self-loop, and the check of a DEPENDS_ON edge ignores the
\* paths that pass through edges of another type: between two different nodes it
\* fails with CyclicDependency only when DEPENDS_ON edges alone lead from the target
\* to the source.
C29_CycleCheckOnlyDependsOn ==
    [][(ret'.op = "link_nodes" /\ ret'.result = "CyclicDependency")
       => (/\ ret'.edge_type = DEPENDS_ON
           /\ \/ ret'.source_id = ret'.target_id
              \/ DependsOnPath(ret'.target_id, ret'.source_id))]_vars

\* a DEPENDS_ON edge was accepted although edges of other types led from its target
\* to its source, and the table now holds a cycle of mixed edge types
C29_Witness ==
    /\ ret.op = "link_nodes"
    /\ ret.result = "ok"
    /\ ret.edge_type = DEPENDS_ON
    /\ ret.source_id # ret.target_id
    /\ Edge(ret.source_id, ret.target_id, DEPENDS_ON) \in DOMAIN edges
    /\ \E e \in DOMAIN edges : e.source_id = ret.target_id /\ e.edge_type # DEPENDS_ON
    /\ AnyPath(ret.source_id, ret.source_id)
    /\ ~DependsOnPath(ret.source_id, ret.source_id)

\* ----------------------------------------------------------------------- C30
\* C30: the path search of the cycle check terminates on every finite edge table,
\* also one that holds cycles, diamonds or duplicate rows, and each node id is
\* expanded at most once.
C30_PathSearchTerminates ==
    /\ [](\A id \in PathNodeIds : walk.expanded[id] <= 1)
    /\ (walk.pc = "loop") ~> (walk.pc = "done")

\* a search that found no path has ended after it expanded a node of a cycle whose
\* out-edge is stored twice
C30_Witness ==
    /\ walk.pc = "done"
    /\ ~walk.result
    /\ Cardinality(walk.visited) >= 2
    /\ \E id \in walk.visited :
           /\ DependsOnPath(id, id)
           /\ walk.expanded[id] = 1
           /\ \E e \in DOMAIN edges : e.source_id = id /\ e.target_id # id /\ edges[e] = 2

\* ----------------------------------------------------------------------- C31
\* the existing nodes that are sources of edges of the type that target the node
EdgeSources(id, edge_type) ==
    {e.source_id : e \in {x \in DOMAIN edges : x.target_id = id /\ x.edge_type = edge_type}}
    \cap {r.id : r \in nodes}

\* the existing nodes that are targets of edges of the type that leave the node
EdgeTargets(id, edge_type) ==
    {e.target_id : e \in {x \in DOMAIN edges : x.source_id = id /\ x.edge_type = edge_type}}
    \cap {r.id : r \in nodes}

\* C31: resolve_context(N) for an existing node N returns dependencies = the sources
\* of the DEPENDS_ON edges targeting N, subtasks = the sources of the PART_OF edges
\* targeting N, references = the nodes joined to N by a REFERENCES edge in either
\* direction, and produces = the targets of the PRODUCES edges leaving N; each list
\* holds every such existing node exactly once.
C31_ResolveContextLists ==
    [][(ret'.op = "resolve_context" /\ Exists(ret'.id))
       => LET N == ret'.id
              context == ret'.graph_context
          IN  /\ context.main.id = N
              /\ context.dependencies = EdgeSources(N, DEPENDS_ON)
              /\ context.subtasks = EdgeSources(N, PART_OF)
              /\ context.references = EdgeSources(N, REFERENCES) \cup EdgeTargets(N, REFERENCES)
              /\ context.produces = EdgeTargets(N, PRODUCES)
              /\ get_neighbors_list(Store, N, DEPENDS_ON, "incoming")
                     = SetToBag(EdgeSources(N, DEPENDS_ON))
              /\ get_neighbors_list(Store, N, PART_OF, "incoming")
                     = SetToBag(EdgeSources(N, PART_OF))
              /\ get_neighbors_list(Store, N, REFERENCES, "both")
                     = SetToBag(EdgeSources(N, REFERENCES) \cup EdgeTargets(N, REFERENCES))
              /\ get_neighbors_list(Store, N, PRODUCES, "outgoing")
                     = SetToBag(EdgeTargets(N, PRODUCES))]_vars

\* resolve_context returned for a node that is joined to one other node by a
\* REFERENCES edge in each direction, and lists that node once
C31_Witness ==
    /\ ret.op = "resolve_context"
    /\ ret.result = "ok"
    /\ \E m \in NodeIds :
           /\ m # ret.id
           /\ Edge(ret.id, m, REFERENCES) \in DOMAIN edges
           /\ Edge(m, ret.id, REFERENCES) \in DOMAIN edges
           /\ ret.graph_context.references = {m}

\* ----------------------------------------------------------------------- C32
\* C32: get_event_execution_context(id) returns absent when the id is missing or
\* belongs to a Note; otherwise context_notes is exactly the Notes that are targets
\* of the REFERENCES edges leaving the event, subtasks is exactly the Events that
\* are sources of the PART_OF edges targeting it; the call leaves the store
\* unchanged.
C32_ExecutionContextLists ==
    [][ret'.op = "get_event_execution_context"
       => (/\ nodes' = nodes
           /\ edges' = edges
           /\ IF ~ExistsEvent(ret'.id)
              THEN ret'.result = None /\ ret'.context = NoContext
              ELSE /\ ret'.result = "ok"
                   /\ ret'.context.event = ret'.id
                   /\ ret'.context.context_notes
                          = {n \in EdgeTargets(ret'.id, REFERENCES) : ExistsNote(n)}
                   /\ ret'.context.subtasks
                          = {n \in EdgeSources(ret'.id, PART_OF) : ExistsEvent(n)})]_vars

\* the context of an Event was returned with a reference Note and a subtask
C32_Witness ==
    /\ ret.op = "get_event_execution_context"
    /\ ret.result = "ok"
    /\ ret.context.context_notes # {}
    /\ ret.context.subtasks # {}
    /\ \A n \in ret.context.context_notes : ExistsNote(n)
    /\ \A n \in ret.context.subtasks : ExistsEvent(n) /\ n # ret.id

\* ----------------------------------------------------------------------- C33
\* the ids named as target by the edge rows that leave the node and match the type
MatchingTargets(id, edge_type) ==
    {e.target_id : e \in {x \in DOMAIN edges :
                              x.source_id = id /\ edge_type \in {None, x.edge_type}}}

\* the ids named as source by the edge rows that target the node and match the type
MatchingSources(id, edge_type) ==
    {e.source_id : e \in {x \in DOMAIN edges :
                              x.target_id = id /\ edge_type \in {None, x.edge_type}}}

\* C33: get_neighbors(id, type, direction) returns the union of the target nodes of
\* the matching outgoing edges (direction outgoing or both) and the source nodes of
\* the matching incoming edges (direction incoming or both); each neighbor appears
\* at most once, also when duplicate or opposite-direction edges exist, and a
\* neighbor id that does not resolve to a node is left out.
C33_NeighborsUnionOnce ==
    [][ret'.op = "get_neighbors"
       => LET out == IF ret'.direction \in {"outgoing", "both"}
                     THEN MatchingTargets(ret'.id, ret'.edge_type) ELSE {}
              inc == IF ret'.direction \in {"incoming", "both"}
                     THEN MatchingSources(ret'.id, ret'.edge_type) ELSE {}
              resolved == {n \in out \cup inc : Exists(n)}
          IN  /\ ret'.node_list = resolved
              /\ ret'.neighbors = SetToBag(resolved)
              /\ nodes' = nodes
              /\ edges' = edges]_vars

\* get_neighbors in both directions returned one neighbor once that is joined to the
\* node by an edge in each direction, or by an edge stored twice, and left out an id
\* of an edge row that has no node
C33_Witness ==
    /\ ret.op = "get_neighbors"
    /\ ret.direction = "both"
    /\ Exists(ret.id)
    /\ \E m \in NodeIds :
           /\ m # ret.id
           /\ ret.neighbors = SetToBag({m})
           /\ \/ /\ m \in MatchingTargets(ret.id, ret.edge_type)
                 /\ m \in MatchingSources(ret.id, ret.edge_type)
              \/ \E e \in DOMAIN edges :
                     e.source_id = ret.id /\ e.target_id = m /\ edges[e] = 2
    /\ \E d \in MatchingTargets(ret.id, ret.edge_type) \cup
                MatchingSources(ret.id, ret.edge_type) : ~Exists(d)

\* ----------------------------------------------------------------------- C34
\* C34: search requests 2 x limit candidates from the vector retrieval and returns
\* at most limit nodes, for every query, kind filter and rerank setting, given a
\* rerank capability that returns at most top_n items; every node returned is one of
\* the candidates retrieved and matches the kind filter when one is given.
C34_SearchBounds ==
    (/\ ret.op = "search"
     /\ ret.service.available => Len(ret.service.reply) <= ret.limit)
    => LET rows == Matching(ret.node_type)
           retrieved == {ret.candidates[i] : i \in 1..Len(ret.candidates)}
       IN  /\ Len(ret.candidates) = (IF 2 * ret.limit < Cardinality(rows)
                                     THEN 2 * ret.limit ELSE Cardinality(rows))
           /\ Cardinality(retrieved) = Len(ret.candidates)
           /\ retrieved \subseteq {r.id : r \in rows}
           /\ Len(ret.found) <= ret.limit
           /\ \A i \in 1..Len(ret.found) : ret.found[i] \in retrieved

\* a search with limit 1 over three stored nodes retrieved two candidates, and the
\* remote rerank model made it return the second
C34_Witness ==
    /\ ret.op = "search"
    /\ ret.rerank_called
    /\ ret.service.available
    /\ ret.limit = 1
    /\ Cardinality(Matching(ret.node_type)) = 3
    /\ Len(ret.candidates) = 2
    /\ ret.found = <<ret.candidates[2]>>

\* ----------------------------------------------------------------------- C35
\* C35: with the placeholder rerank capability (no remote model configured),
\* search(query, limit, kind, rerank = true) returns the same list of nodes in the
\* same order as search(query, limit, kind, rerank = false), in every store state
\* and for every limit.
C35_PlaceholderRerankIsIdentity ==
    (/\ ret.op = "search"
     /\ ret.rerank
     /\ ~ret.service.available)
    => /\ ret.result = "ok"
       /\ ret.found = Prefix(ret.candidates, ret.limit)
       /\ \A scan \in Scans :
              LET with == search(Store, scan, Placeholder, ret.query, ret.limit,
                                 ret.node_type, TRUE)
                  without == search(Store, scan, Placeholder, ret.query, ret.limit,
                                    ret.node_type, FALSE)
              IN  /\ with.result = without.result
                  /\ with.found = without.found
                  /\ with.candidates = without.candidates

\* the placeholder rerank was called with three candidates and limit 2, and the
\* search returned the two nearest in their order
C35_Witness ==
    /\ ret.op = "search"
    /\ ret.rerank
    /\ ~ret.service.available
    /\ ret.rerank_called
    /\ ret.limit = 2
    /\ Len(ret.candidates) = 3
    /\ ret.found = <<ret.candidates[1], ret.candidates[2]>>

\* ----------------------------------------------------------------------- C36
\* the number of rows of the edge table b that are the edge e
Copies(b, e) == IF e \in DOMAIN b THEN b[e] ELSE 0

\* C36: duplicate edges are accepted and removed together: add_edge of a (source,
\* target, type) triple that is already persisted succeeds again (for DEPENDS_ON as
\* long as no reverse path exists) and stores one more copy, and one delete_edge
\* (source, target, type) removes every persisted copy of the triple and leaves
\* every edge with another source, target or type unchanged.
C36_DuplicateEdges ==
    [][/\ (/\ ret'.op = "link_nodes"
           /\ Edge(ret'.source_id, ret'.target_id, ret'.edge_type) \in DOMAIN edges
           /\ ret'.edge_type = DEPENDS_ON
                  => ~DependsOnPath(ret'.target_id, ret'.source_id))
          => (/\ ret'.result = "ok"
              /\ nodes' = nodes
              /\ \A e \in EdgeCreates :
                     Copies(edges', e)
                         = Copies(edges, e)
                           + (IF e = Edge(ret'.source_id, ret'.target_id, ret'.edge_type)
                              THEN 1 ELSE 0))
       /\ (ret'.op = "unlink_nodes")
          => (/\ ret'.result = "ok"
              /\ nodes' = nodes
              /\ \A e \in EdgeCreates :
                     Copies(edges', e)
                         = (IF e = Edge(ret'.source_id, ret'.target_id, ret'.edge_type)
                            THEN 0 ELSE Copies(edges, e)))]_vars

\* one delete_edge removed the two copies of a triple that the edge table held
C36_Witness ==
    /\ ret.op = "unlink_nodes"
    /\ ret.result = "ok"
    /\ ret.edges_before = 2
    /\ ret.changed
    /\ edges = EmptyBag

\* ----------------------------------------------------------------------- C37
\* C37: create_event and create_note add exactly one node, whose id is not the id
\* of a node in the store or of a node deleted before (every id generated so far is
\* below nextId), with no incident edges, and leave every existing node and every
\* edge unchanged.
C37_CreateAddsOneFreshNode ==
    [][ret'.op \in {"create_event", "create_note"}
       => \E r \in nodes' :
              /\ r \notin nodes
              /\ nodes' = nodes \cup {r}
              /\ r = node_to_record(ret'.node)
              /\ r.type = (IF ret'.op = "create_event" THEN EVENT ELSE NOTE)
              /\ ~Exists(r.id)
              /\ r.id >= nextId
              /\ \A old \in nodes : old.id < nextId
              /\ edges' = edges
              /\ \A e \in DOMAIN edges' : e.source_id # r.id /\ e.target_id # r.id]_vars

\* a node was created in a store that holds another node and an edge, after a node
\* created earlier had been deleted
C37_Witness ==
    /\ ret.op \in {"create_event", "create_note"}
    /\ Exists(ret.id)
    /\ \E n \in NodeIds : n < ret.id /\ ~Exists(n)
    /\ Cardinality(nodes) >= 2
    /\ edges # EmptyBag

\* ----------------------------------------------------------------------- C38
\* C38: the path search of the cycle check agrees with reference reachability: for
\* every edge table and every pair of ids, _has_path(from, to, DEPENDS_ON) returns
\* true exactly when to is reachable from from by zero or more DEPENDS_ON edges (so
\* from = to is always reachable), whether the edge table is empty or not.
C38_PathSearchIsReachability ==
    walk.pc = "done"
    => (walk.result <=> walk.to_id \in DependsOnClosure({walk.from_id}))

====
